---- MODULE Spec2Model ----
(***************************************************************************)
(* Verification state machine of the Discord community bot.                *)
(*                                                                         *)
(* src/index.cjs holds several generations of the bot, one after another.  *)
(* Two of them carry the verification flow and are modelled here; a run    *)
(* of the model executes exactly one of them (variable `variant`):         *)
(*                                                                         *)
(*   "lfs"  index.cjs lines 1-524: key-based flow.  Agree button ->        *)
(*          username modal -> 12-character key stored in users.json ->     *)
(*          Register button compares the key with the Roblox profile.      *)
(*   "pg"   index.cjs lines 913-1466 (v2.6): /verify opens a modal that    *)
(*          takes a Roblox id, PENDING_VERIFICATIONS marks the session,    *)
(*          the row is saved through DAL and roles are swapped.            *)
(*                                                                         *)
(* Handlers are async functions: one action of the model is the code that  *)
(* runs between two awaits, so runs of different handlers interleave.      *)
(* JavaScript strings that the code converts (trim, toLowerCase, regex,    *)
(* parseInt, startsWith) are sequences of one-character strings.           *)
(***************************************************************************)
EXTENDS Integers, Sequences, FiniteSets, TLC

VARIABLES
    variant,      \* which generation of the bot this run executes
    storeFaults,  \* whether store reads/writes may fail in this run
    joined,       \* lfs, pg: users seen so far (users are numbered as they arrive)
    events,       \* number of interactions delivered so far (bounded)
    userFile,     \* lfs: parsed content of data/users.json, userId -> record
    nickname,     \* lfs: guild nickname of each member
    modalShown,   \* lfs: users the username modal has been shown to
    handlers,     \* lfs: runs of the component interaction handler
    db,           \* pg: the users table, discord_id -> row
    PENDING_VERIFICATIONS, \* pg: users with a verification session
    roles,        \* pg: guild roles of each member
    formShown,    \* pg: users with a verificationModal open on their client
    pgHandlers,   \* pg: runs of the command and modal handlers
    scheduler,    \* pg: the status scheduler and its checkJob run
    process,      \* the bot process: where its startup stands, its pool, its schema
    gemini,       \* lfs: the run of generateGeminiResponse
    roblox,       \* lfs: a call of one of the Roblox API functions
    logger        \* keep_alive: logBuffer and logIdCounter

lfsVars == <<userFile, nickname, modalShown, handlers>>

pgVars == <<db, PENDING_VERIFICATIONS, roles, formShown, pgHandlers, scheduler>>

vars == <<variant, storeFaults, events, joined, userFile, nickname, modalShown,
         handlers,
         db, PENDING_VERIFICATIONS, roles, formShown, pgHandlers, scheduler,
         process, gemini, roblox, logger>>

----------------------------------------------------------------------------
(* Bounds of the model *)

NumUsers == 2
MaxInFlight == 2
MaxEvents == 3
NumSeeds == 2

Users == 1..NumUsers
Slots == 1..MaxInFlight

----------------------------------------------------------------------------
(* JavaScript string helpers *)

\* null / undefined, distinct from every string of one-character elements
NULL == <<"null">>

UpperChars == <<"A","B","C","D","E","F","G","H","I","J","K","L","M",
                "N","O","P","Q","R","S","T","U","V","W","X","Y","Z">>
LowerChars == <<"a","b","c","d","e","f","g","h","i","j","k","l","m",
                "n","o","p","q","r","s","t","u","v","w","x","y","z">>

LowerChar(c) ==
    IF \E i \in 1..Len(UpperChars) : UpperChars[i] = c
    THEN LowerChars[CHOOSE i \in 1..Len(UpperChars) : UpperChars[i] = c]
    ELSE c

toLowerCase(s) == [i \in 1..Len(s) |-> LowerChar(s[i])]

IsWhiteSpace(c) == c \in {" ", "\t", "\n"}

RECURSIVE trimStart(_)
trimStart(s) ==
    IF s # <<>> /\ IsWhiteSpace(Head(s)) THEN trimStart(Tail(s)) ELSE s

RECURSIVE trimEnd(_)
trimEnd(s) ==
    IF s # <<>> /\ IsWhiteSpace(s[Len(s)])
    THEN trimEnd(SubSeq(s, 1, Len(s) - 1))
    ELSE s

trim(s) == trimEnd(trimStart(s))

startsWith(s, prefix) ==
    /\ Len(s) >= Len(prefix)
    /\ SubSeq(s, 1, Len(prefix)) = prefix

----------------------------------------------------------------------------
(* Configuration constants of the lfs generation *)

ADMIN_ID_OR_USERNAME == <<"K","i","f","f","1","1","3","2">>
\* the source literal starts with an emoji, left out here; the code only
\* ever compares the password with ===
ADMIN_PASSWORD == "SnoWMan(09558555464($_$)"
ADMIN_NICKNAME == <<"N","I","C","E","_","1">>

AGREE_BUTTON_ID == <<"v","e","r","i","f","y","_","a","g","r","e","e">>
REGISTER_BUTTON_ID ==
    <<"v","e","r","i","f","y","_","r","e","g","i","s","t","e","r">>
USERNAME_MODAL_ID == <<"m","o","d","a","l","_","u","s","e","r","n","a","m","e",
                       "_","s","u","b","m","i","t">>
VerifyPrefix == <<"v","e","r","i","f","y","_">>

----------------------------------------------------------------------------
(* Verification key generator *)

KEY_LENGTH == 12
KEY_ALPHABET_SIZE == 36
KeyAlphabet == UpperChars \o <<"0","1","2","3","4","5","6","7","8","9">>

\* Math.random() returns a value in [0, 1): modelled as n / RandomDenominator
RandomDenominator == 72

\* the streams of Math.random() results the model draws a key from
RandomStreams ==
    { [i \in 1..KEY_LENGTH |-> (seed * (5 * i + 2)) % RandomDenominator] :
        seed \in 1..NumSeeds }

\* 'ABC...789'[Math.floor(Math.random() * 36)]
DrawChar(n) == KeyAlphabet[((n * KEY_ALPHABET_SIZE) \div RandomDenominator) + 1]

\* a generator that stops one character early
generateShortKey(stream) == [i \in 1..(KEY_LENGTH - 1) |-> DrawChar(stream[i])]

generateVerificationKey(stream) == [i \in 1..KEY_LENGTH |-> DrawChar(stream[i])]

PossibleKeys == { generateVerificationKey(s) : s \in RandomStreams }

----------------------------------------------------------------------------
(* lfs: the users.json store *)

DefaultUserData ==
    [status |-> 0, robloxUsername |-> NULL, verificationKey |-> NULL,
     agreement |-> FALSE, is_admin |-> FALSE]

EmptyFile == [u \in {} |-> DefaultUserData]

\* whether a store access of this run may fail
StoreOutcomes == IF storeFaults THEN BOOLEAN ELSE {TRUE}

\* readAllUserData: the parsed file, or {} when reading or parsing fails
readAllUserData(readOk) == IF readOk THEN userFile ELSE EmptyFile

\* getUserData followed by the handler's default for a missing record
LoadUserData(allData, userId) ==
    IF userId \in DOMAIN allData THEN allData[userId] ELSE DefaultUserData

\* { ...base, ...newData }
Spread(base, newData) ==
    [f \in DOMAIN base |-> IF f \in DOMAIN newData THEN newData[f] ELSE base[f]]

\* a save that leaves a record that is already there as it is
saveUserDataKeepsOld(allData, userId, newData) ==
    allData @@ (userId :> Spread(LoadUserData(allData, userId), newData))

\* saveUserData after its read: allData[userId] = { ...(old || default), ...newData }
saveUserData(allData, userId, newData) ==
    (userId :> Spread(LoadUserData(allData, userId), newData)) @@ allData

----------------------------------------------------------------------------
(* lfs: Roblox API results *)

\* a comparison that accepts a description that only starts with the key
checkRobloxProfileKeyPrefix(result, description, key) ==
    /\ result = "body"
    /\ description # NULL
    /\ startsWith(trim(description), key)

\* checkRobloxProfileKey after the id lookup succeeded: the profile request
\* failed ("error"), answered non-2xx ("notOk") or returned a body whose
\* description is a string or missing (NULL: .trim() throws, caught)
checkRobloxProfileKey(result, description, key) ==
    /\ result = "body"
    /\ description # NULL
    /\ trim(description) = key

\* profile descriptions the environment may return
ProfileTexts ==
    UNION { { k, <<" ">> \o k \o <<"\n">>, k \o <<"!">> } : k \in PossibleKeys }

\* outcome of the profile request and the description in its body
ProfileResults == {"body", "notOk", "error"}
ProfileInputs == ProfileTexts \cup {NULL}

\* text typed into the username field of the modal
alice == <<"a","l","i","c","e">>
ghost404 == <<"g","h","o","s","t","4","0","4">>

\* the accounts that exist at Roblox (names are looked up exactly)
RobloxUsers == { alice, ADMIN_ID_OR_USERNAME }

\* a lookup that finds every name
getRobloxUserIdAny(username, reachable) == reachable

\* getRobloxUserId: { id, exists }, exists = false when the request fails
getRobloxUserId(username, reachable) == reachable /\ username \in RobloxUsers

UsernameInputs ==
    { alice, <<" ">> \o alice \o <<" ">>, ghost404,
      ADMIN_ID_OR_USERNAME, toLowerCase(ADMIN_ID_OR_USERNAME) }

\* text typed into the optional password field
PasswordInputs == { ADMIN_PASSWORD, "", "snowman(09558555464($_$)" }

----------------------------------------------------------------------------
(* lfs: handler runs.  A run that has sent its reply stays at "replied"    *)
(* (outcome, key shown, number of Roblox requests made) until it returns.  *)

IdleHandler ==
    [pc |-> "idle", kind |-> "none", user |-> 0, userData |-> DefaultUserData,
     robloxUsername |-> NULL, newData |-> [status |-> 0], allData |-> EmptyFile,
     extCalls |-> 0,
     outcome |-> "none", key |-> NULL, channel |-> "none"]

Replied(user, kind, outcome, key, extCalls) ==
    [IdleHandler EXCEPT !.pc = "replied", !.kind = kind, !.user = user,
                        !.outcome = outcome, !.key = key, !.extCalls = extCalls]

\* the lowest free slot takes the next interaction
FreeSlot(h) ==
    /\ handlers[h].pc = "idle"
    /\ \A g \in Slots : g < h => handlers[g].pc # "idle"

\* no interaction handler is running
Quiescent ==
    \A h \in Slots : handlers[h].pc = "idle" /\ pgHandlers[h].pc = "idle"

\* no message handler is running
NoMessagePending ==
    \A h \in Slots : handlers[h].kind # "message" /\ pgHandlers[h].kind # "message"

\* an event can be delivered: the budget is not spent; the short run of a
\* message handler, which changes nothing the other handlers read, is over
\* before the next event comes
CanDeliver(v) ==
    /\ variant = v
    /\ process.pc = "running"
    /\ events < MaxEvents
    /\ NoMessagePending
    /\ scheduler.pc # "checking"

\* a handler of the v2.6 generation takes a step.  The check loop of a job
\* (pc "checking") reads and writes nothing but the job's own lists, so a
\* handler step between two checks gives the state it gives after the loop:
\* the loop is run through before any handler goes on
PgStep == variant = "pg" /\ scheduler.pc # "checking"

\* the next interaction comes from user u: a user already seen, or the next
\* new one
Deliver(v, u) ==
    /\ CanDeliver(v)
    /\ u <= joined + 1
    /\ events' = events + 1
    /\ joined' = IF u > joined THEN u ELSE joined

AlreadyRegisteredNever(userData, customId) == FALSE

\* line 317: already registered and a verify_ component
AlreadyRegistered(userData, customId) ==
    userData.status = 1 /\ startsWith(customId, VerifyPrefix)

\* Agree button: lines 310-353
AgreeClick(h, u, inChannel, readOk) ==
    /\ Deliver("lfs", u)
    /\ FreeSlot(h)
    /\ LET userData == LoadUserData(readAllUserData(readOk), u)
           outcome == IF AlreadyRegistered(userData, AGREE_BUTTON_ID)
                      THEN "AlreadyVerified"
                      ELSE IF ~inChannel THEN "Ignored" ELSE "ModalShown"
       IN /\ modalShown' = IF outcome = "ModalShown"
                           THEN modalShown \cup {u} ELSE modalShown
          /\ handlers' = [handlers EXCEPT ![h] =
                             Replied(u, "agree", outcome, NULL, 0)]
    /\ UNCHANGED <<variant, storeFaults, userFile, nickname, pgVars, process, gemini, roblox, logger>>

\* Register button up to the first Roblox request: lines 310-367
RegisterClick(h, u, inChannel, readOk) ==
    /\ Deliver("lfs", u)
    /\ FreeSlot(h)
    /\ LET userData == LoadUserData(readAllUserData(readOk), u)
           outcome == IF AlreadyRegistered(userData, REGISTER_BUTTON_ID)
                      THEN "AlreadyVerified"
                      ELSE IF ~inChannel THEN "Ignored"
                      ELSE IF \/ userData.robloxUsername = NULL
                              \/ userData.verificationKey = NULL
                      THEN "NotStarted" ELSE "pending"
       IN handlers' = [handlers EXCEPT ![h] =
              IF outcome = "pending"
              THEN [IdleHandler EXCEPT !.pc = "lookupId", !.kind = "register",
                                       !.user = u, !.userData = userData]
              ELSE Replied(u, "register", outcome, NULL, 0)]
    /\ UNCHANGED <<variant, storeFaults, userFile, nickname, modalShown, pgVars, process, gemini, roblox, logger>>

\* a bypass check that accepts any non-empty password
IsAdminBypassAnyPassword(robloxUsername, inputPassword) ==
    /\ toLowerCase(robloxUsername) = toLowerCase(ADMIN_ID_OR_USERNAME)
    /\ inputPassword # ""

\* line 408: identifier compared ignoring case, password compared exactly
IsAdminBypass(robloxUsername, inputPassword) ==
    /\ toLowerCase(robloxUsername) = toLowerCase(ADMIN_ID_OR_USERNAME)
    /\ inputPassword = ADMIN_PASSWORD

\* bypass data without the admin flag
AdminDataUnflagged ==
    [status |-> 1, robloxUsername |-> ADMIN_ID_OR_USERNAME, agreement |-> TRUE]

\* line 409: the data saved by the admin bypass
AdminData ==
    [status |-> 1, robloxUsername |-> ADMIN_ID_OR_USERNAME, is_admin |-> TRUE,
     agreement |-> TRUE]

\* Username modal up to saveUserData (admin) or the Roblox request: 310-422
ModalSubmit(h, u, rawName, inputPassword, readOk) ==
    /\ Deliver("lfs", u)
    /\ FreeSlot(h)
    /\ u \in modalShown
    /\ LET userData == LoadUserData(readAllUserData(readOk), u)
           robloxUsername == trim(rawName)
       IN handlers' = [handlers EXCEPT ![h] =
              IF AlreadyRegistered(userData, USERNAME_MODAL_ID)
              THEN Replied(u, "modal", "AlreadyVerified", NULL, 0)
              ELSE IF IsAdminBypass(robloxUsername, inputPassword)
              THEN [IdleHandler EXCEPT !.pc = "saveRead", !.kind = "admin",
                                       !.user = u, !.userData = userData,
                                       !.robloxUsername = robloxUsername,
                                       !.newData = AdminData]
              ELSE [IdleHandler EXCEPT !.pc = "lookupId", !.kind = "modal",
                                       !.user = u, !.userData = userData,
                                       !.robloxUsername = robloxUsername]]
    /\ UNCHANGED <<variant, storeFaults, userFile, nickname, modalShown, pgVars, process, gemini, roblox, logger>>

PendingData(robloxUsername, newKey) ==
    [status |-> 0, robloxUsername |-> robloxUsername, verificationKey |-> newKey,
     is_admin |-> FALSE, agreement |-> TRUE]

\* getRobloxUserId returned: lines 170-189, 422-433 (modal), 192-193 (register)
IdResponse(h, reachable, stream) ==
    /\ variant = "lfs"
    /\ handlers[h].pc = "lookupId"
    /\ LET run == handlers[h]
           calls == run.extCalls + 1
           name == IF run.kind = "modal" THEN run.robloxUsername
                   ELSE run.userData.robloxUsername
       IN handlers' = [handlers EXCEPT ![h] =
              IF getRobloxUserId(name, reachable)
              THEN IF run.kind = "modal"
                   THEN [run EXCEPT !.pc = "saveRead", !.extCalls = calls,
                                    !.newData = PendingData(run.robloxUsername,
                                                  generateVerificationKey(stream))]
                   ELSE [run EXCEPT !.pc = "fetchProfile", !.extCalls = calls]
              ELSE IF run.kind = "modal"
                   THEN Replied(run.user, "modal", "IdentityNotFound", NULL, calls)
                   ELSE Replied(run.user, "register", "ProofMismatch", NULL, calls)]
    /\ UNCHANGED <<variant, storeFaults, events, joined, userFile, nickname, modalShown,
                   pgVars, process, gemini, roblox, logger>>

VerifiedData == [status |-> 1, agreement |-> TRUE]

\* the profile request of checkRobloxProfileKey answered and the description
\* is compared with the key read at entry: lines 191-208, 367-393
ProfileResponse(h, result, description) ==
    /\ variant = "lfs"
    /\ handlers[h].pc = "fetchProfile"
    /\ LET run == handlers[h]
           calls == run.extCalls + 1
       IN handlers' = [handlers EXCEPT ![h] =
              IF checkRobloxProfileKey(result, description,
                                       run.userData.verificationKey)
              THEN [run EXCEPT !.pc = "saveRead", !.extCalls = calls,
                               !.newData = VerifiedData]
              ELSE Replied(run.user, "register", "ProofMismatch", NULL, calls)]
    /\ UNCHANGED <<variant, storeFaults, events, joined, userFile, nickname, modalShown,
                   pgVars, process, gemini, roblox, logger>>

\* saveUserData, first half: await readAllUserData().  Lines 149-150
SaveRead(h, readOk) ==
    /\ variant = "lfs"
    /\ handlers[h].pc = "saveRead"
    /\ handlers' = [handlers EXCEPT ![h].pc = "saveWrite",
                                    ![h].allData = readAllUserData(readOk)]
    /\ UNCHANGED <<variant, storeFaults, events, joined, userFile, nickname, modalShown,
                   pgVars, process, gemini, roblox, logger>>

\* saveUserData, second half (merge and writeFile, a failed write is only
\* logged), then the rest of the handler: nickname and reply.
\* Lines 151-160, 371-385, 409-418, 431-442
SaveWrite(h, writeOk, nickSet) ==
    /\ variant = "lfs"
    /\ handlers[h].pc = "saveWrite"
    /\ LET run == handlers[h]
           u == run.user
           newNick == IF run.kind = "admin" THEN ADMIN_NICKNAME
                      ELSE run.userData.robloxUsername
           outcome == CASE run.kind = "admin" -> "AdminBypassSuccess"
                        [] run.kind = "register" -> "VerificationComplete"
                        [] OTHER -> "KeyIssued"
           shownKey == IF run.kind = "modal" THEN run.newData.verificationKey
                       ELSE NULL
       IN /\ userFile' = IF writeOk
                         THEN saveUserData(run.allData, u, run.newData)
                         ELSE userFile
          /\ nickname' = IF run.kind # "modal" /\ nickSet
                         THEN [nickname EXCEPT ![u] = newNick]
                         ELSE nickname
          /\ handlers' = [handlers EXCEPT ![h] =
                             Replied(u, run.kind, outcome, shownKey, run.extCalls)]
    /\ UNCHANGED <<variant, storeFaults, events, joined, modalShown, pgVars, process, gemini, roblox, logger>>

\* the channels a message may be posted in: the verification channel, the
\* AI channel, and any other channel of the guild
VERIFICATION_CHANNEL_ID == "verification"
GEMINI_CHANNEL_ID == "gemini"
OTHER_CHANNEL == "other"
LfsChannels == {VERIFICATION_CHANNEL_ID, GEMINI_CHANNEL_ID, OTHER_CHANNEL}

\* what messageCreate does with a guild member's message (lines 449-516):
\* "Answered" (deleted and answered by the AI), "Deleted" or "Kept"
LfsGate(userData, channel, isPrompt) ==
    LET isRegistered == userData.status = 1
        isExemptChannel == channel \in {VERIFICATION_CHANNEL_ID, GEMINI_CHANNEL_ID}
    IN IF channel = GEMINI_CHANNEL_ID
       THEN IF ~isPrompt THEN "Kept"
            ELSE IF ~isRegistered THEN "Deleted" ELSE "Answered"
       ELSE IF isExemptChannel \/ isRegistered THEN "Kept" ELSE "Deleted"

\* a guild member's message arrives while no interaction is being handled,
\* and is handled: lines 449-516 (the delete calls touch nothing of the bot's
\* state and are taken to go through); a prompt that is answered has its log
\* message sent and the handler goes on to call the AI (lines 487-494)
MessageCreate(h, u, channel, isPrompt, readOk) ==
    /\ Deliver("lfs", u)
    /\ Quiescent
    /\ FreeSlot(h)
    /\ LET userData == LoadUserData(readAllUserData(readOk), u)
           outcome == LfsGate(userData, channel, isPrompt)
       IN handlers' = [handlers EXCEPT ![h] =
              [Replied(u, "message", outcome, NULL, 0)
                  EXCEPT !.channel = channel,
                         !.pc = IF outcome = "Answered" THEN "thinking" ELSE "replied"]]
    /\ UNCHANGED <<variant, storeFaults, userFile, nickname, modalShown, pgVars, process, gemini, roblox, logger>>

\* the handler returns after its reply
Return(h) ==
    /\ variant = "lfs"
    /\ handlers[h].pc = "replied"
    /\ handlers' = [handlers EXCEPT ![h] = IdleHandler]
    /\ UNCHANGED <<variant, storeFaults, events, joined, userFile, nickname, modalShown,
                   pgVars, process, gemini, roblox, logger>>

----------------------------------------------------------------------------
(* lfs: the text-generation client, generateGeminiResponse (lines 212-238) *)

\* the loop makes this many attempts: for (let i = 0; i < 3; i++)
GeminiAttempts == 3

\* the unit of the backoff, in milliseconds
BackoffUnit == 1000

\* the texts the function can return
MissingKeyText == "MissingKey"
GeneratedText == "Generated"
FallbackText == "Fallback"
NetworkErrorText == "NetworkError"
GeminiTexts == {MissingKeyText, GeneratedText, FallbackText, NetworkErrorText}

\* what one attempt can come to: a body with a text, a body without one, or
\* fetch / response.json() throwing
FetchOutcomes == {"text", "noText", "throws"}

\* no call is running; result is "" until the function returns
GeminiIdle == [pc |-> "idle", i |-> 0, attempts |-> 0, waits |-> <<>>, result |-> ""]

\* a backoff that waits the same time after every failed attempt
BackoffDelayFlat(i) == BackoffUnit

\* the wait after attempt i failed: 2 ** i * 1000
BackoffDelay(i) == (2 ^ i) * BackoffUnit

\* whether a wait follows the failure of attempt i: if (i < 2)
WaitsAfter(i) == i < GeminiAttempts - 1

\* the handler calls generateGeminiResponse(prompt): without an API key the
\* function returns at once, else it enters the loop and makes its first fetch
GeminiCall(h, hasKey) ==
    /\ variant = "lfs"
    /\ handlers[h].pc = "thinking"
    /\ gemini.pc = "idle"
    /\ handlers' = [handlers EXCEPT ![h].pc = "awaitAI"]
    /\ gemini' = IF hasKey
                 THEN [GeminiIdle EXCEPT !.pc = "fetch", !.attempts = 1]
                 ELSE [GeminiIdle EXCEPT !.pc = "done", !.result = MissingKeyText]
    /\ UNCHANGED <<variant, storeFaults, events, joined, userFile, nickname, modalShown,
                   pgVars, process, roblox, logger>>

\* the attempt is over: a body is returned with its text or the fallback; a
\* throw is caught, and the loop waits and goes on, or ends after the last
\* attempt with the network-error text
GeminiResponse(outcome) ==
    /\ variant = "lfs"
    /\ gemini.pc = "fetch"
    /\ gemini' =
          IF outcome = "text"
          THEN [gemini EXCEPT !.pc = "done", !.result = GeneratedText]
          ELSE IF outcome = "noText"
          THEN [gemini EXCEPT !.pc = "done", !.result = FallbackText]
          ELSE IF WaitsAfter(gemini.i)
          THEN [gemini EXCEPT !.pc = "wait",
                              !.waits = Append(gemini.waits, BackoffDelay(gemini.i))]
          ELSE IF gemini.i + 1 < GeminiAttempts
          THEN [gemini EXCEPT !.pc = "fetch", !.i = gemini.i + 1,
                              !.attempts = gemini.attempts + 1]
          ELSE [gemini EXCEPT !.pc = "done", !.i = gemini.i + 1,
                              !.result = NetworkErrorText]
    /\ UNCHANGED <<variant, storeFaults, events, joined, userFile, nickname, modalShown,
                   handlers, pgVars, process, roblox, logger>>

\* the backoff timer fires: i++, and the loop makes its next fetch or ends
GeminiWaitOver ==
    /\ variant = "lfs"
    /\ gemini.pc = "wait"
    /\ gemini' =
          IF gemini.i + 1 < GeminiAttempts
          THEN [gemini EXCEPT !.pc = "fetch", !.i = gemini.i + 1,
                              !.attempts = gemini.attempts + 1]
          ELSE [gemini EXCEPT !.pc = "done", !.i = gemini.i + 1,
                              !.result = NetworkErrorText]
    /\ UNCHANGED <<variant, storeFaults, events, joined, userFile, nickname, modalShown,
                   handlers, pgVars, process, roblox, logger>>

\* the function has returned its text: the handler edits its log message
\* with it and returns (lines 496-500)
GeminiReturn(h) ==
    /\ variant = "lfs"
    /\ handlers[h].pc = "awaitAI"
    /\ gemini.pc = "done"
    /\ handlers' = [handlers EXCEPT ![h].pc = "replied"]
    /\ gemini' = GeminiIdle
    /\ UNCHANGED <<variant, storeFaults, events, joined, userFile, nickname, modalShown,
                   pgVars, process, roblox, logger>>

\* Math.random (line 127) may draw any stream.  Keys that occur nowhere in
\* the state are interchangeable, so of the streams whose key is not in
\* users.json or in a running handler only the first one is drawn
KeysOf(file) == {file[u].verificationKey : u \in DOMAIN file}

KeysInUse ==
    KeysOf(userFile) \cup
    UNION {{handlers[h].key, handlers[h].userData.verificationKey}
             \cup KeysOf(handlers[h].allData)
             \cup (IF "verificationKey" \in DOMAIN handlers[h].newData
                   THEN {handlers[h].newData.verificationKey} ELSE {})
           : h \in Slots}

StreamOf(seed) ==
    [i \in 1..KEY_LENGTH |-> (seed * (5 * i + 2)) % RandomDenominator]

DrawableStreams ==
    LET fresh == {seed \in 1..NumSeeds :
                     generateVerificationKey(StreamOf(seed)) \notin KeysInUse}
    IN {StreamOf(seed) : seed \in
           {x \in 1..NumSeeds : x \notin fresh \/ \A y \in fresh : x <= y}}

LfsNext ==
    \/ \E h \in Slots, u \in Users, inChannel \in BOOLEAN, readOk \in StoreOutcomes :
          AgreeClick(h, u, inChannel, readOk)
    \/ \E h \in Slots, u \in Users, inChannel \in BOOLEAN, readOk \in StoreOutcomes :
          RegisterClick(h, u, inChannel, readOk)
    \/ \E h \in Slots, u \in Users, rawName \in UsernameInputs,
          inputPassword \in PasswordInputs, readOk \in StoreOutcomes :
          ModalSubmit(h, u, rawName, inputPassword, readOk)
    \/ \E h \in Slots :
          /\ variant = "lfs"
          /\ handlers[h].pc = "lookupId"
          /\ \E reachable \in BOOLEAN, stream \in DrawableStreams :
                IdResponse(h, reachable, stream)
    \/ \E h \in Slots, result \in ProfileResults, description \in ProfileInputs :
          ProfileResponse(h, result, description)
    \/ \E h \in Slots, readOk \in StoreOutcomes : SaveRead(h, readOk)
    \/ \E h \in Slots, writeOk \in StoreOutcomes, nickSet \in BOOLEAN :
          SaveWrite(h, writeOk, nickSet)
    \/ \E h \in Slots, u \in Users, channel \in LfsChannels, isPrompt \in BOOLEAN,
          readOk \in StoreOutcomes :
          MessageCreate(h, u, channel, isPrompt, readOk)
    \/ \E h \in Slots, hasKey \in BOOLEAN : GeminiCall(h, hasKey)
    \/ \E outcome \in FetchOutcomes : GeminiResponse(outcome)
    \/ GeminiWaitOver
    \/ \E h \in Slots : GeminiReturn(h)
    \/ \E h \in Slots : Return(h)

----------------------------------------------------------------------------
(* pg (v2.6): configuration and the simulated Roblox group check *)

MEMBER_ROLE_ID == "444444444444444444"
UNVERIFIED_ROLE_ID == "555555555555555555"

Digits == <<"0","1","2","3","4","5","6","7","8","9">>

\* /^\d+$/.test(s)
IsNumeric(s) ==
    /\ Len(s) > 0
    /\ \A i \in 1..Len(s) : \E d \in 1..Len(Digits) : Digits[d] = s[i]

DigitValue(c) == (CHOOSE d \in 1..Len(Digits) : Digits[d] = c) - 1

\* parseInt of a string of decimal digits
RECURSIVE parseInt(_)
parseInt(s) ==
    IF s = <<>> THEN 0
    ELSE 10 * parseInt(SubSeq(s, 1, Len(s) - 1)) + DigitValue(s[Len(s)])

VerifiedUserPrefix == <<"V","e","r","i","f","i","e","d","U","s","e","r","_">>
UnverifiedGuestPrefix ==
    <<"U","n","v","e","r","i","f","i","e","d","G","u","e","s","t","_">>

\* checkRobloxMembership: even ids are members of the group, odd ids are not
checkRobloxMembership(robloxId) ==
    LET isMember == (parseInt(robloxId) % 2) = 0
    IN [robloxId |-> robloxId,
        username |-> IF isMember THEN VerifiedUserPrefix \o robloxId
                     ELSE UnverifiedGuestPrefix \o robloxId,
        isMember |-> isMember]

\* text typed into the Roblox id field of the verificationModal
RobloxIdInputs ==
    { <<"1","0","0","0","2">>, <<" ","1","0","0","0","2"," ">>,
      <<"2","0","0","0","4">>, <<"1","0","0","0","3">>,
      <<"1","0","0","0","x">> }

----------------------------------------------------------------------------
(* pg: data access layer.  The verification_timestamp column is not part   *)
(* of the model.                                                           *)

NoRow == [roblox_id |-> NULL, roblox_username |-> NULL, is_group_member |-> FALSE]

EmptyTable == [d \in {} |-> NoRow]

\* a DAL.get that never finds a row
DAL_get_nothing(discord_id, dbOk) == FALSE

\* DAL.get: the row, or nothing when there is none or the query fails
DAL_get(discord_id, dbOk) == dbOk /\ discord_id \in DOMAIN db

\* the INSERT ... ON CONFLICT ("discord_id") DO UPDATE of DAL.save goes
\* through unless the query fails or "roblox_id" UNIQUE is violated
DAL_save_ok(discord_id, roblox_id, dbOk) ==
    /\ dbOk
    /\ \A d \in DOMAIN db : d # discord_id => db[d].roblox_id # roblox_id

\* DAL.save: upsert of the user's row (the error is caught and logged)
DAL_save(discord_id, roblox_id, roblox_username, is_group_member, dbOk) ==
    IF DAL_save_ok(discord_id, roblox_id, dbOk)
    THEN (discord_id :> [roblox_id |-> roblox_id,
                         roblox_username |-> roblox_username,
                         is_group_member |-> is_group_member]) @@ db
    ELSE db

\* a DAL.delete that returns a row whenever the query goes through
DAL_delete_row_always(discord_id, dbOk) == dbOk

\* DAL.delete: DELETE ... RETURNING *, nothing returned on error or no row
DAL_delete_row(discord_id, dbOk) == dbOk /\ discord_id \in DOMAIN db

\* a DAL.delete that reports the row and leaves it in the table
DAL_delete_keep(discord_id, dbOk) == db

DAL_delete(discord_id, dbOk) ==
    IF DAL_delete_row(discord_id, dbOk)
    THEN [d \in DOMAIN db \ {discord_id} |-> db[d]]
    ELSE db

----------------------------------------------------------------------------
(* pg: handler runs *)

\* saved: whether the awaited DAL.save resolved to a row (it resolves to null
\* when the INSERT failed); the handler drops the value (line 1332)
IdlePg ==
    [pc |-> "idle", kind |-> "none", user |-> 0, robloxId |-> NULL,
     robloxData |-> [robloxId |-> NULL, username |-> NULL, isMember |-> FALSE],
     saved |-> FALSE,
     extCalls |-> 0, outcome |-> "none", channel |-> "none"]

RepliedPg(user, kind, outcome, extCalls) ==
    [IdlePg EXCEPT !.pc = "replied", !.kind = kind, !.user = user,
                   !.outcome = outcome, !.extCalls = extCalls]

\* a session check that always passes
HasPendingSessionAlways(discordId) == TRUE

\* line 1314: PENDING_VERIFICATIONS.has(discordId)
HasPendingSession(discordId) == discordId \in PENDING_VERIFICATIONS

FreePgSlot(h) ==
    /\ pgHandlers[h].pc = "idle"
    /\ \A g \in Slots : g < h => pgHandlers[g].pc # "idle"

\* /verify up to showModal: lines 1237-1262
VerifyCommand(h, u, dbOk) ==
    /\ Deliver("pg", u)
    /\ FreePgSlot(h)
    /\ IF DAL_get(u, dbOk)
       THEN /\ pgHandlers' = [pgHandlers EXCEPT ![h] =
                 RepliedPg(u, "verify", "AlreadyVerified", 0)]
            /\ UNCHANGED formShown
       ELSE /\ pgHandlers' = [pgHandlers EXCEPT ![h] =
                 [IdlePg EXCEPT !.pc = "setPending", !.kind = "verify", !.user = u]]
            /\ formShown' = formShown \cup {u}
    /\ UNCHANGED <<variant, storeFaults, lfsVars, process, gemini, roblox, logger, scheduler, db, PENDING_VERIFICATIONS, roles>>

\* /verify after showModal resolved: lines 1263-1265
VerifySetPending(h) ==
    /\ PgStep
    /\ pgHandlers[h].pc = "setPending"
    /\ PENDING_VERIFICATIONS' = PENDING_VERIFICATIONS \cup {pgHandlers[h].user}
    /\ pgHandlers' = [pgHandlers EXCEPT ![h] =
           RepliedPg(pgHandlers[h].user, "verify", "PromptShown", 0)]
    /\ UNCHANGED <<variant, storeFaults, events, joined, lfsVars, process, gemini, roblox, logger, scheduler, db, roles, formShown>>

\* verificationModal submitted, up to deferReply: lines 1307-1318
VerificationModalSubmit(h, u, rawId) ==
    /\ Deliver("pg", u)
    /\ FreePgSlot(h)
    /\ u \in formShown
    /\ formShown' = formShown \ {u}
    /\ pgHandlers' = [pgHandlers EXCEPT ![h] =
           IF ~HasPendingSession(u)
           THEN RepliedPg(u, "verificationModal", "SessionExpired", 0)
           ELSE [IdlePg EXCEPT !.pc = "deferred", !.kind = "verificationModal",
                               !.user = u, !.robloxId = rawId]]
    /\ UNCHANGED <<variant, storeFaults, lfsVars, process, gemini, roblox, logger, scheduler, db, PENDING_VERIFICATIONS, roles>>

\* a handler end that leaves the session where it is
PendingKept(discordId) == PENDING_VERIFICATIONS

\* PENDING_VERIFICATIONS.delete(discordId): lines 1323 and 1355 (finally)
PendingDeleted(discordId) == PENDING_VERIFICATIONS \ {discordId}

\* input validation and the start of the group check: lines 1320-1329
ModalValidate(h) ==
    /\ PgStep
    /\ pgHandlers[h].pc = "deferred"
    /\ LET run == pgHandlers[h]
           robloxId == trim(run.robloxId)
       IN IF ~IsNumeric(robloxId)
          THEN /\ PENDING_VERIFICATIONS' = PendingDeleted(run.user)
               /\ pgHandlers' = [pgHandlers EXCEPT ![h] =
                      RepliedPg(run.user, "verificationModal", "InvalidInput", 0)]
          ELSE /\ pgHandlers' = [pgHandlers EXCEPT ![h].pc = "checking",
                                                   ![h].robloxId = robloxId]
               /\ UNCHANGED PENDING_VERIFICATIONS
    /\ UNCHANGED <<variant, storeFaults, events, joined, lfsVars, process, gemini, roblox, logger, scheduler, db, roles, formShown>>

\* a handler that accepts every checked identity
MembershipAcceptedAlways(robloxData) == TRUE

\* if (robloxData && robloxData.isMember): line 1331
MembershipAccepted(robloxData) == robloxData.isMember

\* the group check returned: lines 1329-1332, 1345-1349, 1354-1356
ModalMembership(h) ==
    /\ PgStep
    /\ pgHandlers[h].pc = "checking"
    /\ LET run == pgHandlers[h]
           robloxData == checkRobloxMembership(run.robloxId)
       IN IF MembershipAccepted(robloxData)
          THEN /\ pgHandlers' = [pgHandlers EXCEPT ![h].pc = "saving",
                                                   ![h].robloxData = robloxData,
                                                   ![h].extCalls = 1]
               /\ UNCHANGED PENDING_VERIFICATIONS
          ELSE /\ PENDING_VERIFICATIONS' = PendingDeleted(run.user)
               /\ pgHandlers' = [pgHandlers EXCEPT ![h] =
                      RepliedPg(run.user, "verificationModal", "NotAMember", 1)]
    /\ UNCHANGED <<variant, storeFaults, events, joined, lfsVars, process, gemini, roblox, logger, scheduler, db, roles, formShown>>

\* DAL.save ran: line 1332
ModalSave(h, dbOk) ==
    /\ PgStep
    /\ pgHandlers[h].pc = "saving"
    /\ LET run == pgHandlers[h]
       IN /\ db' = DAL_save(run.user, run.robloxData.robloxId,
                            run.robloxData.username, TRUE, dbOk)
          /\ pgHandlers' = [pgHandlers EXCEPT ![h].pc = "roles",
                 ![h].saved = DAL_save_ok(run.user, run.robloxData.robloxId, dbOk)]
    /\ UNCHANGED <<variant, storeFaults, events, joined, lfsVars, process, gemini, roblox, logger, scheduler, PENDING_VERIFICATIONS,
                   roles, formShown>>

\* a role call whose rejection aborts the handler
RoleCallThrowsOnFailure(ok) == ~ok

\* whether "await member.roles.add(..).catch(e => logToConsole(..))" throws:
\* the .catch settles the promise, so it never does (lines 1336-1337)
RoleCallThrows(ok) == FALSE

\* role swap, reply and the finally block: lines 1334-1343, 1351-1356
ModalRoles(h, inGuild, addOk, removeOk, replyOk) ==
    /\ PgStep
    /\ pgHandlers[h].pc = "roles"
    /\ LET run == pgHandlers[h]
           u == run.user
           added == IF inGuild /\ addOk THEN roles[u] \cup {MEMBER_ROLE_ID}
                    ELSE roles[u]
           swapped == IF inGuild /\ removeOk THEN added \ {UNVERIFIED_ROLE_ID}
                      ELSE added
       IN /\ roles' = [roles EXCEPT ![u] = swapped]
          /\ pgHandlers' = [pgHandlers EXCEPT ![h] =
                 RepliedPg(u, "verificationModal",
                           IF /\ replyOk
                              /\ ~(inGuild /\ RoleCallThrows(addOk))
                              /\ ~(inGuild /\ RoleCallThrows(removeOk))
                           THEN "VerificationSuccessful"
                           ELSE "InternalError", run.extCalls)]
          /\ PENDING_VERIFICATIONS' = PendingDeleted(u)
    /\ UNCHANGED <<variant, storeFaults, events, joined, lfsVars, process, gemini, roblox, logger, scheduler, db, formShown>>

\* /unverify up to the role changes: lines 1267-1270, 1278-1284
UnverifyCommand(h, u, dbOk) ==
    /\ Deliver("pg", u)
    /\ FreePgSlot(h)
    /\ db' = DAL_delete(u, dbOk)
    /\ pgHandlers' = [pgHandlers EXCEPT ![h] =
           IF DAL_delete_row(u, dbOk)
           THEN [IdlePg EXCEPT !.pc = "unverifyRoles", !.kind = "unverify",
                               !.user = u]
           ELSE RepliedPg(u, "unverify", "NotCurrentlyVerified", 0)]
    /\ UNCHANGED <<variant, storeFaults, lfsVars, process, gemini, roblox, logger, scheduler, PENDING_VERIFICATIONS, roles,
                   formShown>>

\* /unverify role changes and confirmation: lines 1271-1277
UnverifyRoles(h, removeOk, addOk) ==
    /\ PgStep
    /\ pgHandlers[h].pc = "unverifyRoles"
    /\ LET u == pgHandlers[h].user
           removed == IF removeOk THEN roles[u] \ {MEMBER_ROLE_ID} ELSE roles[u]
           swapped == IF addOk THEN removed \cup {UNVERIFIED_ROLE_ID} ELSE removed
       IN /\ roles' = [roles EXCEPT ![u] = swapped]
          /\ pgHandlers' = [pgHandlers EXCEPT ![h] =
                 RepliedPg(u, "unverify", "Unverified", 0)]
    /\ UNCHANGED <<variant, storeFaults, events, joined, lfsVars, process, gemini, roblox, logger, scheduler, db,
                   PENDING_VERIFICATIONS, formShown>>

\* a status message that reports every stored user as a group member
statusMessageAlwaysMember(userData) ==
    [robloxId |-> userData.roblox_id, username |-> userData.roblox_username,
     isMember |-> TRUE]

\* what the status message shows of the row: username, id and the
\* group-member flag (line 1292)
statusMessage(userData) ==
    [robloxId |-> userData.roblox_id, username |-> userData.roblox_username,
     isMember |-> userData.is_group_member]

\* /checkstatus <user>: lines 1286-1298
CheckStatus(h, u, target, dbOk) ==
    /\ Deliver("pg", u)
    /\ FreePgSlot(h)
    /\ pgHandlers' = [pgHandlers EXCEPT ![h] =
           IF DAL_get(target, dbOk)
           THEN [RepliedPg(u, "checkstatus", "StatusVerified", 0)
                    EXCEPT !.robloxId = db[target].roblox_id,
                           !.robloxData = statusMessage(db[target])]
           ELSE RepliedPg(u, "checkstatus", "StatusNotVerified", 0)]
    /\ UNCHANGED <<variant, storeFaults, lfsVars, process, gemini, roblox, logger, scheduler, db,
                   PENDING_VERIFICATIONS, roles, formShown>>

GENERAL_CHANNEL_ID == "general"
PgChannels == {VERIFICATION_CHANNEL_ID, GENERAL_CHANNEL_ID, OTHER_CHANNEL}

\* a gate that restricts every channel but the verification channel
PgGateAllChannels(memberRoles, channel, manageGuild) ==
    IF channel = VERIFICATION_CHANNEL_ID \/ manageGuild
          \/ MEMBER_ROLE_ID \in memberRoles
    THEN "Kept" ELSE "Blocked"

\* what the v2.6 messageCreate does with a guild member's message (lines
\* 1416-1456): "Blocked" (deleted and a notice posted) or "Kept"
PgGate(memberRoles, channel, manageGuild) ==
    IF channel = VERIFICATION_CHANNEL_ID THEN "Kept"
    ELSE IF manageGuild THEN "Kept"
    ELSE IF MEMBER_ROLE_ID \in memberRoles THEN "Kept"
    ELSE IF channel = GENERAL_CHANNEL_ID THEN "Blocked" ELSE "Kept"

\* a guild member's message arrives while no interaction is being handled,
\* and is handled; a blocked message leaves a notice in the channel and a
\* 10 s timer: lines 1416-1456
PgMessageCreate(h, u, channel, manageGuild) ==
    /\ Deliver("pg", u)
    /\ Quiescent
    /\ FreePgSlot(h)
    /\ LET outcome == PgGate(roles[u], channel, manageGuild)
       IN pgHandlers' = [pgHandlers EXCEPT ![h] =
              [RepliedPg(u, "message", outcome, 0)
                  EXCEPT !.channel = channel,
                         !.pc = IF outcome = "Blocked" THEN "warned" ELSE "replied"]]
    /\ UNCHANGED <<variant, storeFaults, lfsVars, process, gemini, roblox, logger, scheduler, db,
                   PENDING_VERIFICATIONS, roles, formShown>>

\* the timer of a notice fires and the notice is deleted: lines 1441-1447
NoticeTimeout(h) ==
    /\ PgStep
    /\ pgHandlers[h].pc = "warned"
    /\ pgHandlers' = [pgHandlers EXCEPT ![h] = IdlePg]
    /\ UNCHANGED <<variant, storeFaults, events, joined, lfsVars, process, gemini, roblox, logger, scheduler, db,
                   PENDING_VERIFICATIONS, roles, formShown>>

\* the handler returns after its reply
ReturnPg(h) ==
    /\ PgStep
    /\ pgHandlers[h].pc = "replied"
    /\ pgHandlers' = [pgHandlers EXCEPT ![h] = IdlePg]
    /\ UNCHANGED <<variant, storeFaults, events, joined, lfsVars, process, gemini, roblox, logger, scheduler, db,
                   PENDING_VERIFICATIONS, roles, formShown>>

\* pg: the periodic status checker (startStatusScheduler and its checkJob)

\* the rows of DAL.getAllVerified in discord_id order; none when the query fails
RECURSIVE RowsOf(_, _)
RowsOf(table, ids) ==
    IF ids = {} THEN <<>>
    ELSE LET d == CHOOSE x \in ids : \A y \in ids : x <= y
         IN <<[discord_id |-> d, roblox_id |-> table[d].roblox_id]>>
            \o RowsOf(table, ids \ {d})

DAL_getAllVerified(table, dbOk) ==
    IF dbOk THEN RowsOf(table, {d \in DOMAIN table : table[d].is_group_member})
    ELSE <<>>

usersToRevokeAll(users) == {users[i].discord_id : i \in 1..Len(users)}

\* the check loop of checkJob: the users whose Roblox id is not in the group
usersToRevoke(users) ==
    {users[i].discord_id : i \in {j \in 1..Len(users) :
                                     ~checkRobloxMembership(users[j].roblox_id).isMember}}

DeleteNonMember(discord_id) == [d \in DOMAIN db \ {discord_id} |-> db[d]]

\* UPDATE users SET "is_group_member" = FALSE WHERE "discord_id" = $1
MarkNonMember(discord_id) ==
    [d \in DOMAIN db |->
        IF d = discord_id THEN [db[d] EXCEPT !.is_group_member = FALSE] ELSE db[d]]

\* no job is running: the scheduler waits for the next tick of setInterval
SchedulerIdle ==
    [pc |-> "idle", stage |-> [u \in {} |-> "roles"],
     queue |-> <<>>, checking |-> {}, toRevoke |-> {}]

\* checkJob() was called and awaits DAL.getAllVerified
JobStarted == [SchedulerIdle EXCEPT !.pc = "loading"]

\* startStatusScheduler(): checkJob() at once, then setInterval
startStatusScheduler == JobStarted

\* the interval timer fires (every 12 hours, the previous job is long over)
SchedulerTick ==
    /\ CanDeliver("pg")
    /\ scheduler.pc = "idle"
    /\ scheduler' = JobStarted
    /\ events' = events + 1
    /\ UNCHANGED <<variant, storeFaults, joined, lfsVars, process, gemini, roblox, logger, db,
                   PENDING_VERIFICATIONS, roles, formShown, pgHandlers>>

\* a check loop that starts the checks of all its users at once
NextChecksAll(queue) == {queue[i] : i \in 1..Len(queue)}

\* for (const user of users) { await checkRobloxMembership(user.roblox_id) }:
\* the loop starts the check of the first user it has not checked yet and
\* awaits it (lines 1368-1369)
NextChecks(queue) == IF queue = <<>> THEN {} ELSE {Head(queue)}

\* the rows of a queue whose check has not been started
RECURSIVE NotStarted(_, _)
NotStarted(queue, started) ==
    IF queue = <<>> THEN <<>>
    ELSE IF Head(queue) \in started THEN NotStarted(Tail(queue), started)
    ELSE <<Head(queue)>> \o NotStarted(Tail(queue), started)

\* the job after a step of its check loop: it goes on checking, or the loop
\* is over and Promise.all starts every demotion (or none: the job ends)
AfterCheck(queue, checking, toRevoke) ==
    LET started == IF checking = {} THEN NextChecks(queue) ELSE {}
        inFlight == checking \cup started
    IN IF inFlight # {}
       THEN [SchedulerIdle EXCEPT !.pc = "checking",
                                  !.queue = NotStarted(queue, started),
                                  !.checking = inFlight,
                                  !.toRevoke = toRevoke]
       ELSE IF toRevoke = {} THEN SchedulerIdle
       ELSE [SchedulerIdle EXCEPT !.pc = "revoking",
                                  !.stage = [u \in toRevoke |-> "roles"]]

\* DAL.getAllVerified returned: the check loop starts on its rows
SweepLoad(dbOk) ==
    /\ variant = "pg"
    /\ scheduler.pc = "loading"
    /\ scheduler' = AfterCheck(DAL_getAllVerified(db, dbOk), {}, {})
    /\ UNCHANGED <<variant, storeFaults, events, joined, lfsVars, process, gemini, roblox, logger, db,
                   PENDING_VERIFICATIONS, roles, formShown, pgHandlers>>

\* the membership check of one user returned (the simulated check reads
\* nothing but the row it is given): the user is listed for revocation or
\* not, and the loop goes on (lines 1369-1374)
SweepCheck(user) ==
    /\ variant = "pg"
    /\ scheduler.pc = "checking"
    /\ user \in scheduler.checking
    /\ scheduler' = AfterCheck(scheduler.queue, scheduler.checking \ {user},
                               scheduler.toRevoke \cup usersToRevoke(<<user>>))
    /\ UNCHANGED <<variant, storeFaults, events, joined, lfsVars, process, gemini, roblox, logger, db,
                   PENDING_VERIFICATIONS, roles, formShown, pgHandlers>>

\* one demotion: member fetched, roles swapped, DM sent
SweepDemoteRoles(u, inGuild, removeOk, addOk) ==
    /\ variant = "pg"
    /\ scheduler.pc = "revoking"
    /\ u \in DOMAIN scheduler.stage
    /\ scheduler.stage[u] = "roles"
    /\ LET removed == IF inGuild /\ removeOk THEN roles[u] \ {MEMBER_ROLE_ID}
                      ELSE roles[u]
           swapped == IF inGuild /\ addOk THEN removed \cup {UNVERIFIED_ROLE_ID}
                      ELSE removed
       IN roles' = [roles EXCEPT ![u] = swapped]
    /\ scheduler' = [scheduler EXCEPT !.stage[u] = "update"]
    /\ UNCHANGED <<variant, storeFaults, events, joined, lfsVars, process, gemini, roblox, logger, db,
                   PENDING_VERIFICATIONS, formShown, pgHandlers>>

DemotionAborts(s, u) == SchedulerIdle

\* Promise.all over the demotions, each in its own try/catch: the job goes on
\* until the last demotion is over, whether it succeeded or was caught
DemotionOver(s, u) ==
    IF \A v \in DOMAIN s.stage \ {u} : s.stage[v] = "done"
    THEN SchedulerIdle
    ELSE [s EXCEPT !.stage[u] = "done"]

\* one demotion: the UPDATE ran (a failure is caught and logged); the job
\* ends with the last demotion
SweepDemoteUpdate(u, dbOk) ==
    /\ variant = "pg"
    /\ scheduler.pc = "revoking"
    /\ u \in DOMAIN scheduler.stage
    /\ scheduler.stage[u] = "update"
    /\ db' = IF dbOk THEN MarkNonMember(u) ELSE db
    /\ scheduler' = DemotionOver(scheduler, u)
    /\ UNCHANGED <<variant, storeFaults, events, joined, lfsVars, process, gemini, roblox, logger,
                   PENDING_VERIFICATIONS, roles, formShown, pgHandlers>>

\* the process is restarted: the in-memory session map (line 1110) and the
\* running handlers are gone, the table and the guild are kept
Restart ==
    /\ CanDeliver("pg")
    /\ PENDING_VERIFICATIONS' = {}
    /\ pgHandlers' = [h \in Slots |-> IdlePg]
    /\ scheduler' = startStatusScheduler
    /\ events' = events + 1
    /\ UNCHANGED <<variant, storeFaults, joined, lfsVars, process, gemini, roblox, logger, db, roles, formShown>>

\* v3: the scheduler of the v3.0 generation (startScheduler)

\* startScheduler(): setInterval only, no job is run by the call
startScheduler == SchedulerIdle

\* the interval timer fires: the callback awaits dalGetAllUsers
V3SchedulerTick ==
    /\ CanDeliver("v3")
    /\ scheduler.pc = "idle"
    /\ scheduler' = JobStarted
    /\ events' = events + 1
    /\ UNCHANGED <<variant, storeFaults, joined, lfsVars, process, gemini, roblox, logger, db,
                   PENDING_VERIFICATIONS, roles, formShown, pgHandlers>>

\* dalGetAllUsers returned (or failed): the placeholder job logs its counts,
\* revokes nobody and ends
V3SchedulerJob ==
    /\ variant = "v3"
    /\ scheduler.pc = "loading"
    /\ scheduler' = SchedulerIdle
    /\ UNCHANGED <<variant, storeFaults, events, joined, lfsVars, process, gemini, roblox, logger, db,
                   PENDING_VERIFICATIONS, roles, formShown, pgHandlers>>

V3Next ==
    \/ V3SchedulerTick
    \/ V3SchedulerJob

----------------------------------------------------------------------------
(* lfs: the Roblox API functions, called on their own (lines 170-208) *)

\* what the username lookup can come to: a 2xx JSON body that lists the
\* matches, a non-2xx answer (an error body without matches), a body that
\* is not JSON, or fetch rejecting
IdResponses == {"body", "notOk", "malformed", "error"}

\* what the profile request can come to
ProfileResponses == ProfileResults \cup {"malformed"}

\* a lookup without its try/catch: a rejected fetch or an unparsable body
\* reaches the caller
getRobloxUserIdUncaught(username, response) ==
    [exists |-> getRobloxUserId(username, response = "body"),
     thrown |-> response \in {"malformed", "error"}]

\* getRobloxUserId as a call: { id, exists }, and whether it throws.  The
\* whole body is inside try { } catch (e) { return { id: null, exists: false } }
\* (lines 171-183); response.ok is not looked at, the body decides
getRobloxUserIdOn(username, response) ==
    [exists |-> getRobloxUserId(username, response = "body"), thrown |-> FALSE]

RobloxIdle ==
    [pc |-> "idle", fn |-> "none", username |-> NULL, key |-> NULL,
     exists |-> FALSE, response |-> "none", result |-> FALSE]

\* checkRobloxUserExists(username) or checkRobloxProfileKey(username, key)
\* is called and awaits getRobloxUserId
RobloxCall(fn, username, key) ==
    /\ variant = "roblox"
    /\ roblox.pc = "idle"
    /\ roblox' = [RobloxIdle EXCEPT !.pc = "lookup", !.fn = fn, !.username = username,
                                    !.key = IF fn = "profileKey" THEN key ELSE NULL]
    /\ UNCHANGED <<variant, storeFaults, events, joined, lfsVars, pgVars, process, gemini,
                   logger>>

\* getRobloxUserId is over: checkRobloxUserExists returns exists (186-189);
\* checkRobloxProfileKey returns false without a user or goes on to the
\* profile request (192-197)
RobloxIdResponse(response) ==
    /\ variant = "roblox"
    /\ roblox.pc = "lookup"
    /\ LET r == getRobloxUserIdOn(roblox.username, response)
       IN roblox' =
             IF r.thrown
             THEN [roblox EXCEPT !.pc = "thrown", !.response = response]
             ELSE IF roblox.fn = "profileKey" /\ r.exists
             THEN [roblox EXCEPT !.pc = "profile", !.exists = TRUE,
                                 !.response = response]
             ELSE [roblox EXCEPT !.pc = "done", !.exists = r.exists,
                                 !.response = response, !.result = r.exists]
    /\ UNCHANGED <<variant, storeFaults, events, joined, lfsVars, pgVars, process, gemini,
                   logger>>

\* the profile request is over and checkRobloxProfileKey returns (195-207)
RobloxProfileResponse(response, description) ==
    /\ variant = "roblox"
    /\ roblox.pc = "profile"
    /\ roblox' = [roblox EXCEPT
           !.pc = "done", !.response = response,
           !.result = checkRobloxProfileKey(response, description, roblox.key)]
    /\ UNCHANGED <<variant, storeFaults, events, joined, lfsVars, pgVars, process, gemini,
                   logger>>

\* the caller has the result (or the exception)
RobloxReturn ==
    /\ variant = "roblox"
    /\ roblox.pc \in {"done", "thrown"}
    /\ roblox' = RobloxIdle
    /\ UNCHANGED <<variant, storeFaults, events, joined, lfsVars, pgVars, process, gemini,
                   logger>>

RobloxNext ==
    \/ \E fn \in {"exists", "profileKey"}, username \in UsernameInputs,
          key \in PossibleKeys : RobloxCall(fn, username, key)
    \/ \E response \in IdResponses : RobloxIdResponse(response)
    \/ \E response \in ProfileResponses, description \in ProfileInputs :
          RobloxProfileResponse(response, description)
    \/ RobloxReturn

----------------------------------------------------------------------------
(* keep_alive.js: the console.log override and its buffer (lines 8-60).   *)
(* unnamed/part_000 (8-55) is the same code; unnamed/part_001 (10-69)       *)
(* also buffers the lines that do not match the pattern.                    *)

\* size of the buffer (100 in keep_alive.js and part_000, 150 in part_001),
\* scaled down
MAX_LOGS_IN_MEMORY == 3

\* number of console.log calls of a run
MaxLogCalls == 6

\* the copies of the override that differ in behaviour
LogCopies == {"keep_alive", "part_001"}

\* what is passed to console.log: a line that matches the structured
\* pattern, a string that does not, or a value that is not a string
\* (logLine.match is not a function)
LogLines == {"structured", "raw", "nonString"}

\* const logBuffer = []; let logIdCounter = 1;
\* buffered lists every entry pushed so far, calls counts the calls
LoggerStart ==
    [copy |-> "keep_alive", logBuffer |-> <<>>, logIdCounter |-> 1,
     buffered |-> <<>>, calls |-> 0]

\* a buffer that drops the entry just pushed when it is full
DropNewest(buffer) ==
    IF Len(buffer) > MAX_LOGS_IN_MEMORY
    THEN SubSeq(buffer, 1, MAX_LOGS_IN_MEMORY) ELSE buffer

\* if (logBuffer.length > MAX_LOGS_IN_MEMORY) logBuffer.shift();
DropOldest(buffer) ==
    IF Len(buffer) > MAX_LOGS_IN_MEMORY THEN Tail(buffer) ELSE buffer

\* the module field of the entry a call pushes, "none" when it pushes nothing
\* and "throws" when building the entry throws after logIdCounter++.
\* keep_alive.js: a match is buffered (28-47), a string without a match is
\* not (no else branch), a failing logLine.match is buffered by the catch
\* (49-58).  part_001: the else branch buffers the raw line (47-57); in the
\* catch "logLine.substring(0, 50)" throws for a value that is not a string,
\* after "id: logIdCounter++" was evaluated (58-68)
EntryModule(copy, logLine) ==
    CASE logLine = "structured" -> "GENERAL"
      [] logLine = "raw" -> IF copy = "part_001" THEN "SYSTEM_RAW" ELSE "none"
      [] OTHER -> IF copy = "part_001" THEN "throws" ELSE "SYSTEM_ERR"

\* one call of the overridden console.log
ConsoleLog(logLine) ==
    /\ variant = "log"
    /\ logger.calls < MaxLogCalls
    /\ LET module == EntryModule(logger.copy, logLine)
           logEntry == [id |-> logger.logIdCounter, module |-> module]
       IN logger' =
            CASE module = "none" -> [logger EXCEPT !.calls = @ + 1]
              [] module = "throws" ->
                   [logger EXCEPT !.calls = @ + 1, !.logIdCounter = @ + 1]
              [] OTHER ->
                   [logger EXCEPT
                       !.calls = @ + 1,
                       !.logIdCounter = @ + 1,
                       !.logBuffer = DropOldest(Append(@, logEntry)),
                       !.buffered = Append(@, logEntry)]
    /\ UNCHANGED <<variant, storeFaults, events, joined, lfsVars, pgVars, process,
                   gemini, roblox>>

LogNext == \E logLine \in LogLines : ConsoleLog(logLine)

----------------------------------------------------------------------------
(* Startup of the process: schema setup, login, 'ready' *)

\* the process before its first step: the pool is there or null, no schema
\* statement has gone through yet
ProcessStart(v, pool) ==
    [pc |-> IF v \in {"pg", "v3"} THEN "starting" ELSE "login", pool |-> pool,
     schema |-> FALSE]

\* ensureDbSchema() and the .then of the startup lines.
\* v2.6 (1024-1045, 1460-1466): a rejected connect leaves the promise rejected
\* with no handler and a rejected query runs process.exit(1); either way the
\* process ends before client.login.
\* v3.0 (595-613, 904-910): without a pool the function returns at once; a
\* rejected query is caught, but the handler's "pool = null" assigns to the
\* const of line 586 and throws, so the promise is rejected with no handler
\* and the process ends as well.
EnsureDbSchema(queryOk) ==
    /\ variant \in {"pg", "v3"}
    /\ process.pc = "starting"
    /\ process' = IF ~process.pool THEN [process EXCEPT !.pc = "login"]
                  ELSE IF queryOk THEN [process EXCEPT !.pc = "login", !.schema = TRUE]
                  ELSE [process EXCEPT !.pc = "exited"]
    /\ UNCHANGED <<variant, storeFaults, events, joined, lfsVars, gemini, roblox, logger, pgVars>>

\* client.login resolves and 'ready' is emitted: the scheduler is started
\* (lines 700-705, 1211-1224); the lfs generation has no scheduler
Ready ==
    /\ variant \in {"lfs", "pg", "v3"}
    /\ process.pc = "login"
    /\ process' = [process EXCEPT !.pc = "running"]
    /\ scheduler' = IF variant = "pg" THEN startStatusScheduler
                    ELSE IF variant = "v3" THEN startScheduler
                    ELSE scheduler
    /\ UNCHANGED <<variant, storeFaults, events, joined, lfsVars, gemini, roblox, logger, db,
                   PENDING_VERIFICATIONS, roles, formShown, pgHandlers>>

\* client.login rejects: process.exit(1) (lines 520-524, 905-909, 1461-1465)
LoginRejected ==
    /\ variant \in {"lfs", "pg", "v3"}
    /\ process.pc = "login"
    /\ process' = [process EXCEPT !.pc = "exited"]
    /\ UNCHANGED <<variant, storeFaults, events, joined, lfsVars, gemini, roblox, logger, pgVars>>

StartupNext ==
    \/ \E queryOk \in BOOLEAN : EnsureDbSchema(queryOk)
    \/ Ready
    \/ LoginRejected

PgNext ==
    \/ \E h \in Slots, u \in Users, dbOk \in StoreOutcomes : VerifyCommand(h, u, dbOk)
    \/ \E h \in Slots : VerifySetPending(h)
    \/ \E h \in Slots, u \in Users, rawId \in RobloxIdInputs :
          VerificationModalSubmit(h, u, rawId)
    \/ \E h \in Slots : ModalValidate(h)
    \/ \E h \in Slots : ModalMembership(h)
    \/ \E h \in Slots, dbOk \in StoreOutcomes : ModalSave(h, dbOk)
    \/ \E h \in Slots, inGuild \in BOOLEAN, addOk \in BOOLEAN, removeOk \in BOOLEAN,
          replyOk \in BOOLEAN :
          ModalRoles(h, inGuild, addOk, removeOk, replyOk)
    \/ \E h \in Slots, u \in Users, dbOk \in StoreOutcomes : UnverifyCommand(h, u, dbOk)
    \/ \E h \in Slots, removeOk \in BOOLEAN, addOk \in BOOLEAN :
          UnverifyRoles(h, removeOk, addOk)
    \/ \E h \in Slots, u \in Users, target \in Users, dbOk \in StoreOutcomes :
          CheckStatus(h, u, target, dbOk)
    \/ \E h \in Slots, u \in Users, channel \in PgChannels, manageGuild \in BOOLEAN :
          PgMessageCreate(h, u, channel, manageGuild)
    \/ \E h \in Slots : NoticeTimeout(h)
    \/ \E h \in Slots : ReturnPg(h)
    \/ Restart
    \/ SchedulerTick
    \/ \E dbOk \in StoreOutcomes : SweepLoad(dbOk)
    \/ \E user \in scheduler.checking : SweepCheck(user)
    \/ \E u \in Users, inGuild \in BOOLEAN, removeOk \in BOOLEAN, addOk \in BOOLEAN :
          SweepDemoteRoles(u, inGuild, removeOk, addOk)
    \/ \E u \in Users, dbOk \in StoreOutcomes : SweepDemoteUpdate(u, dbOk)

----------------------------------------------------------------------------
(* Specifications *)

\* tables left by earlier runs: the first two users hold a verified row and
\* the member role; the first user's Roblox id is not in the group, the second
\* user's id is in the group in one table and not in the other
SeededUsers == {u \in Users : u <= 2}

SeedRobloxIds ==
    {[u \in SeededUsers |-> <<"3", "0", "0", "0">> \o <<Digits[IF u = 1 THEN 2 ELSE last]>>]
        : last \in {4, 5}}

SeededTables ==
    {[u \in SeededUsers |->
        [roblox_id |-> ids[u],
         roblox_username |-> VerifiedUserPrefix \o ids[u],
         is_group_member |-> TRUE]] : ids \in SeedRobloxIds}

InitialTables == {EmptyTable} \cup SeededTables

\* a run that starts from the seeded table is given this many events
SeededEvents == 1

\* a users.json left by an earlier run: the first two users clicked Agree and
\* were shown the username modal, the first one submitted "alice" and was
\* issued a key that is stored with status 0
SeededFile ==
    1 :> PendingData(alice, CHOOSE k \in PossibleKeys : TRUE)

InitialFiles == {EmptyFile, SeededFile}

\* a run that starts from the seeded file is charged this many events for
\* the interactions that produced the file
SeededFileCharge == SeededEvents

InitState ==
    /\ variant \in {"lfs", "pg", "v3", "roblox", "log"}
    /\ userFile \in IF variant = "lfs" THEN InitialFiles ELSE {EmptyFile}
    /\ nickname = [u \in Users |-> NULL]
    /\ modalShown = IF userFile = EmptyFile THEN {} ELSE SeededUsers
    /\ handlers = [h \in Slots |-> IdleHandler]
    /\ db \in IF variant = "pg" THEN InitialTables ELSE {EmptyTable}
    /\ joined = IF userFile = EmptyFile THEN Cardinality(DOMAIN db)
                ELSE Cardinality(SeededUsers)
    /\ events = IF userFile # EmptyFile THEN SeededFileCharge
                ELSE IF db = EmptyTable THEN 0 ELSE MaxEvents - SeededEvents
    /\ PENDING_VERIFICATIONS = {}
    /\ roles = [u \in Users |-> IF u \in DOMAIN db THEN {MEMBER_ROLE_ID}
                                 ELSE {UNVERIFIED_ROLE_ID}]
    /\ formShown = {}
    /\ pgHandlers = [h \in Slots |-> IdlePg]
    /\ scheduler = SchedulerIdle
    /\ process \in {ProcessStart(variant, pool) :
                       pool \in IF variant = "pg" THEN {TRUE}
                                ELSE IF variant = "v3" THEN BOOLEAN ELSE {FALSE}}
    /\ gemini = GeminiIdle
    /\ roblox = RobloxIdle
    /\ logger \in IF variant = "log"
                   THEN {[LoggerStart EXCEPT !.copy = c] : c \in LogCopies}
                   ELSE {LoggerStart}

\* the store answers every read and write
Init == InitState /\ storeFaults = FALSE

\* store reads and writes may fail
InitFaults == InitState /\ storeFaults = TRUE

Next == LfsNext \/ PgNext \/ V3Next \/ StartupNext \/ RobloxNext \/ LogNext

Spec == Init /\ [][Next]_vars

SpecFaults == InitFaults /\ [][Next]_vars

----------------------------------------------------------------------------
(* Vocabulary of the specification, read off the stores *)

\* the lfs Principal Link of user u in a users.json content
Link(file, u) == LoadUserData(file, u)

\* PendingProof: status 0 with a username and a proof token
IsPendingProof(r) ==
    r.status = 0 /\ r.robloxUsername # NULL /\ r.verificationKey # NULL

\* Verified without the admin override, in either store
IsVerifiedNormal(file, table, u) ==
    \/ Link(file, u).status = 1 /\ ~Link(file, u).is_admin
    \/ u \in DOMAIN table

TokenChars ==
    { "A","B","C","D","E","F","G","H","I","J","K","L","M","N","O","P","Q","R",
      "S","T","U","V","W","X","Y","Z","0","1","2","3","4","5","6","7","8","9" }

IsToken(k) == k # NULL /\ Len(k) = 12 /\ \A i \in 1..Len(k) : k[i] \in TokenChars

\* handler run h takes the step from pc value from to pc value to
LfsStep(h, from, to) == handlers[h].pc = from /\ handlers'[h].pc = to

IsAdminSubmission(rawName, inputPassword) ==
    /\ toLowerCase(trim(rawName)) = toLowerCase(ADMIN_ID_OR_USERNAME)
    /\ inputPassword = ADMIN_PASSWORD

\* the modal inputs that name the admin identifier and give the admin secret
AdminSubmissions ==
    { p \in UsernameInputs \X PasswordInputs : IsAdminSubmission(p[1], p[2]) }

----------------------------------------------------------------------------
(* Claims *)

\* C1: when the username modal is submitted a second time while the user's
\* record is still PendingProof (the record the run read at entry is still
\* the stored one), the key stored and displayed by that submission is the
\* key that was stored before it.
C1_SecondSubmitKeepsToken ==
    [][\A h \in Slots :
          LET run == handlers[h]
              old == Link(userFile, run.user)
          IN (/\ LfsStep(h, "saveWrite", "replied")
              /\ run.kind = "modal"
              /\ IsPendingProof(run.userData)
              /\ old = run.userData)
             => /\ Link(userFile', run.user).verificationKey = old.verificationKey
                /\ handlers'[h].key = old.verificationKey]_vars

\* C2: a user's link becomes Verified without the admin override only from a
\* PendingProof record holding a username and a proof token.
C2_NeverSkipsPendingProof ==
    [][\A u \in Users :
          (/\ ~IsVerifiedNormal(userFile, db, u)
           /\ IsVerifiedNormal(userFile', db', u))
          => IsPendingProof(Link(userFile, u))]_vars

\* C3: when the profile request of a Register submission does not return a
\* description whose trimmed text is exactly the proof token stored when the
\* submission was received, the run replies ProofMismatch and that step, the
\* run's last, leaves the store as it is.
C3_MismatchLeavesRecord ==
    [][\A h \in Slots, result \in ProfileResults, description \in ProfileInputs :
          (/\ handlers[h].pc = "fetchProfile"
           /\ ProfileResponse(h, result, description)
           /\ ~(/\ result = "body"
                /\ description # NULL
                /\ trim(description) = handlers[h].userData.verificationKey))
          => /\ handlers'[h].pc = "replied"
             /\ handlers'[h].outcome = "ProofMismatch"
             /\ userFile' = userFile]_vars

\* C3 witness: a Register run replied ProofMismatch after both Roblox
\* requests and the user's record is still PendingProof
C3_Witness ==
    \E h \in Slots :
        /\ handlers[h].pc = "replied"
        /\ handlers[h].kind = "register"
        /\ handlers[h].outcome = "ProofMismatch"
        /\ handlers[h].extCalls = 2
        /\ IsPendingProof(Link(userFile, handlers[h].user))

\* C4: a modal submission of an identity that exists stores status 0, that
\* username and a 12-character token over A-Z, 0-9, the token displayed; a
\* Register submission whose profile text is exactly the token proceeds to
\* the save, and the save of a run whose record was not changed since it was
\* received leaves the record Verified with the username submitted.
C4_TokenIssuedThenVerified ==
    [][\A h \in Slots :
          LET run == handlers[h]
              u == run.user
              new == Link(userFile', u)
          IN /\ (LfsStep(h, "saveWrite", "replied") /\ run.kind = "modal")
                => /\ new.status = 0
                   /\ new.robloxUsername = run.robloxUsername
                   /\ run.robloxUsername \in RobloxUsers
                   /\ new.verificationKey = handlers'[h].key
                   /\ IsToken(new.verificationKey)
             /\ \A description \in ProfileInputs :
                   (/\ run.pc = "fetchProfile"
                    /\ ProfileResponse(h, "body", description)
                    /\ description = run.userData.verificationKey)
                   => handlers'[h].pc = "saveRead"
             /\ (/\ LfsStep(h, "saveWrite", "replied")
                 /\ run.kind = "register"
                 /\ Link(userFile, u) = run.userData
                 /\ Link(run.allData, u) = run.userData)
                => /\ new.status = 1
                   /\ new.robloxUsername = run.userData.robloxUsername
                   /\ handlers'[h].outcome = "VerificationComplete"]_vars

\* C4 witness: a Register run replied VerificationComplete and the record is
\* Verified as alice, still holding its 12-character token
C4_Witness ==
    \E h \in Slots :
        /\ handlers[h].pc = "replied"
        /\ handlers[h].outcome = "VerificationComplete"
        /\ Link(userFile, handlers[h].user).status = 1
        /\ Link(userFile, handlers[h].user).robloxUsername = alice
        /\ IsToken(Link(userFile, handlers[h].user).verificationKey)

\* C5: when the identity submitted in the modal does not exist at Roblox and
\* is not an admin bypass, the answer to the lookup ends the run with the
\* reply IdentityNotFound, no key, and the store as it is.
C5_IdentityNotFoundWritesNothing ==
    [][\A h \in Slots, reachable \in BOOLEAN, stream \in RandomStreams :
          (/\ handlers[h].pc = "lookupId"
           /\ handlers[h].kind = "modal"
           /\ IdResponse(h, reachable, stream)
           /\ handlers[h].robloxUsername \notin RobloxUsers)
          => /\ handlers'[h].pc = "replied"
             /\ handlers'[h].outcome = "IdentityNotFound"
             /\ handlers'[h].key = NULL
             /\ userFile' = userFile]_vars

\* C5 witness: a modal run replied IdentityNotFound and the user has no record
C5_Witness ==
    \E h \in Slots :
        /\ handlers[h].pc = "replied"
        /\ handlers[h].outcome = "IdentityNotFound"
        /\ handlers[h].user \notin DOMAIN userFile

\* C6: a submission of the admin identifier with the admin secret starts a
\* run that goes straight to the save, makes no Roblox request, and whose
\* save leaves the record Verified with is_admin true before it replies.
C6_AdminBypassImmediate ==
    [][\A h \in Slots :
          LET run == handlers[h]
              new == Link(userFile', run.user)
          IN /\ (run.pc = "idle" /\ handlers'[h].kind \in {"admin", "modal"})
                => \A rawName \in UsernameInputs, inputPassword \in PasswordInputs,
                      readOk \in StoreOutcomes :
                      (/\ <<rawName, inputPassword>> \in AdminSubmissions
                       /\ ModalSubmit(h, handlers'[h].user, rawName,
                                      inputPassword, readOk))
                      => /\ handlers'[h].kind = "admin"
                         /\ handlers'[h].pc = "saveRead"
             /\ (run.kind = "admin" /\ handlers'[h] # run)
                => /\ run.extCalls = 0
                   /\ handlers'[h].extCalls = 0
                   /\ \/ LfsStep(h, "saveRead", "saveWrite")
                      \/ LfsStep(h, "saveWrite", "replied")
                      \/ LfsStep(h, "replied", "idle")
             /\ (LfsStep(h, "saveWrite", "replied") /\ run.kind = "admin")
                => /\ new.status = 1
                   /\ new.is_admin
                   /\ new.robloxUsername = ADMIN_ID_OR_USERNAME
                   /\ handlers'[h].outcome = "AdminBypassSuccess"]_vars

\* C6 witness: an admin run replied and the record is Verified with is_admin
C6_Witness ==
    \E h \in Slots :
        /\ handlers[h].pc = "replied"
        /\ handlers[h].outcome = "AdminBypassSuccess"
        /\ handlers[h].extCalls = 0
        /\ Link(userFile, handlers[h].user).status = 1
        /\ Link(userFile, handlers[h].user).is_admin

\* C7: a modal submission takes the admin bypass exactly when the identity
\* equals the admin identifier ignoring case and the secret is exactly the
\* admin secret; a save turns its user's is_admin on only in a bypass run,
\* and the save of a normal-path modal run stores status 0, is_admin false.
C7_AdminOnlyWithSecret ==
    [][\A h \in Slots :
          LET run == handlers[h]
              new == Link(userFile', run.user)
          IN /\ (run.pc = "idle" /\ handlers'[h].kind \in {"admin", "modal"})
                => \A rawName \in UsernameInputs, inputPassword \in PasswordInputs,
                      readOk \in StoreOutcomes :
                      ModalSubmit(h, handlers'[h].user, rawName, inputPassword,
                                  readOk)
                      => (handlers'[h].kind = "admin"
                            <=> <<rawName, inputPassword>> \in AdminSubmissions)
             /\ (/\ LfsStep(h, "saveWrite", "replied")
                 /\ new.is_admin
                 /\ ~Link(run.allData, run.user).is_admin)
                => run.kind = "admin"
             /\ (LfsStep(h, "saveWrite", "replied") /\ run.kind = "modal")
                => new.status = 0 /\ ~new.is_admin]_vars

\* C7 witness: the admin identifier with another secret took the normal path:
\* a key was issued and the record is PendingProof, not admin
C7_Witness ==
    \E h \in Slots :
        /\ handlers[h].pc = "replied"
        /\ handlers[h].kind = "modal"
        /\ handlers[h].outcome = "KeyIssued"
        /\ Link(userFile, handlers[h].user).robloxUsername = ADMIN_ID_OR_USERNAME
        /\ Link(userFile, handlers[h].user).status = 0
        /\ ~Link(userFile, handlers[h].user).is_admin

\* C8: a verification-form submission from a user with no Pending Session is
\* answered SessionExpired at once: no Roblox request, and the table, the
\* roles and the sessions are left as they are.
C8_NoSessionRejected ==
    [][\A h \in Slots, u \in Users, rawId \in RobloxIdInputs :
          (/\ pgHandlers[h].pc = "idle"
           /\ pgHandlers'[h].user = u
           /\ u \notin PENDING_VERIFICATIONS
           /\ VerificationModalSubmit(h, u, rawId))
          => /\ pgHandlers'[h].pc = "replied"
             /\ pgHandlers'[h].outcome = "SessionExpired"
             /\ pgHandlers'[h].extCalls = 0
             /\ db' = db
             /\ roles' = roles
             /\ PENDING_VERIFICATIONS' = PENDING_VERIFICATIONS]_vars

\* C8 witness: a form submission was answered SessionExpired
C8_Witness ==
    \E h \in Slots :
        /\ pgHandlers[h].pc = "replied"
        /\ pgHandlers[h].kind = "verificationModal"
        /\ pgHandlers[h].outcome = "SessionExpired"
        /\ pgHandlers[h].user \notin PENDING_VERIFICATIONS

C10_UnverifyWithoutLink ==
    [][\A h \in Slots, u \in Users, dbOk \in StoreOutcomes :
          (/\ pgHandlers[h].pc = "idle"
           /\ pgHandlers'[h].user = u
           /\ u \notin DOMAIN db
           /\ UnverifyCommand(h, u, dbOk))
          => /\ pgHandlers'[h].pc = "replied"
             /\ pgHandlers'[h].outcome = "NotCurrentlyVerified"
             /\ roles' = roles
             /\ db' = db
             /\ u \notin DOMAIN db']_vars

\* C10 witness: two /unverify of the same user without a row, both answered
\* NotCurrentlyVerified
C10_Witness ==
    \E h \in Slots, g \in Slots :
        /\ h # g
        /\ pgHandlers[h].user = pgHandlers[g].user
        /\ pgHandlers[h].outcome = "NotCurrentlyVerified"
        /\ pgHandlers[g].outcome = "NotCurrentlyVerified"
        /\ pgHandlers[h].user \notin DOMAIN db
        /\ roles[pgHandlers[h].user] = {UNVERIFIED_ROLE_ID}

\* C11: /unverify of a user who has a row deletes that row and no other
\* and goes on to the role calls; when both role calls go through, the
\* member role is gone, the unverified role is held and the reply is the
\* confirmation; a /checkstatus on a user without a row reports not verified.
C11_UnverifyWithLink ==
    [][\A h \in Slots :
          LET run == pgHandlers[h]
              new == pgHandlers'[h]
          IN /\ (run.pc = "idle" /\ new.kind = "unverify" /\ new.user \in DOMAIN db)
                => \A dbOk \in StoreOutcomes :
                      UnverifyCommand(h, new.user, dbOk)
                      => /\ new.pc = "unverifyRoles"
                         /\ DOMAIN db' = DOMAIN db \ {new.user}
                         /\ \A d \in DOMAIN db' : db'[d] = db[d]
             /\ (run.pc = "unverifyRoles" /\ UnverifyRoles(h, TRUE, TRUE))
                => /\ MEMBER_ROLE_ID \notin roles'[run.user]
                   /\ UNVERIFIED_ROLE_ID \in roles'[run.user]
                   /\ \A u \in Users \ {run.user} : roles'[u] = roles[u]
                   /\ new.pc = "replied"
                   /\ new.outcome = "Unverified"
             /\ (run.pc = "idle" /\ new.kind = "checkstatus")
                => \A target \in Users \ DOMAIN db, dbOk \in StoreOutcomes :
                      CheckStatus(h, new.user, target, dbOk)
                      => new.outcome = "StatusNotVerified"]_vars

\* C11 witness: a user who held the member role and a row was unverified:
\* the confirmation is sent, the row is gone and the roles are swapped
C11_Witness ==
    \E h \in Slots :
        /\ pgHandlers[h].pc = "replied"
        /\ pgHandlers[h].kind = "unverify"
        /\ pgHandlers[h].outcome = "Unverified"
        /\ pgHandlers[h].user \notin DOMAIN db
        /\ roles[pgHandlers[h].user] = {UNVERIFIED_ROLE_ID}

\* the principals of a table that are stored as members and whose Roblox id
\* fails the group membership check
StoredNonMembers(table) ==
    {d \in DOMAIN table :
        /\ table[d].is_group_member
        /\ ~checkRobloxMembership(table[d].roblox_id).isMember}

\* C12: a sweep picks exactly the principals stored as members whose
\* membership check is false; demoting one of them (role calls that go
\* through) takes the member role from that principal only and sets the stored
\* membership flag of that principal's record only to false; no step of the
\* sweep touches the record or the roles of anybody else.
C12_RevocationSweep ==
    [][/\ (scheduler.pc = "loading" /\ SweepLoad(TRUE))
          => /\ {r.discord_id : r \in scheduler'.checking}
                   \cup {scheduler'.queue[i].discord_id : i \in 1..Len(scheduler'.queue)}
                = {d \in DOMAIN db : db[d].is_group_member}
             /\ \A r \in scheduler'.checking : r.roblox_id = db[r.discord_id].roblox_id
             /\ db' = db
             /\ roles' = roles
       /\ \A r \in scheduler.checking :
             (scheduler.pc = "checking" /\ SweepCheck(r))
             => /\ LET listed == IF scheduler'.pc = "checking" THEN scheduler'.toRevoke
                                 ELSE DOMAIN scheduler'.stage
                   IN listed = scheduler.toRevoke \cup
                         (IF checkRobloxMembership(r.roblox_id).isMember THEN {}
                          ELSE {r.discord_id})
                /\ db' = db
                /\ roles' = roles
       /\ \A u \in Users :
             /\ (scheduler.pc = "revoking" /\ SweepDemoteRoles(u, TRUE, TRUE, TRUE))
                => /\ MEMBER_ROLE_ID \notin roles'[u]
                   /\ \A v \in Users \ {u} : roles'[v] = roles[v]
                   /\ db' = db
             /\ (scheduler.pc = "revoking" /\ SweepDemoteUpdate(u, TRUE))
                => /\ DOMAIN db' = DOMAIN db
                   /\ u \in DOMAIN db => db'[u] = [db[u] EXCEPT !.is_group_member = FALSE]
                   /\ \A d \in DOMAIN db \ {u} : db'[d] = db[d]
                   /\ roles' = roles]_vars

\* C12: a sweep is over in which the first principal (not in the group) was
\* demoted and the second (in the group) was left as it was
C12_Witness ==
    /\ scheduler.pc = "idle"
    /\ DOMAIN db = {1, 2}
    /\ ~db[1].is_group_member
    /\ MEMBER_ROLE_ID \notin roles[1]
    /\ db[2].is_group_member
    /\ checkRobloxMembership(db[2].roblox_id).isMember
    /\ roles[2] = {MEMBER_ROLE_ID}
    /\ events = MaxEvents - SeededEvents

\* C13: no step of a sweep changes which principals have a record, also when
\* the record of the demoted user is gone by the time the UPDATE runs; a
\* record disappears only in the step of an /unverify run that deletes it.
C13_SweepOnlyDemotes ==
    [][/\ scheduler' # scheduler => DOMAIN db' = DOMAIN db
       /\ \A u \in Users :
             /\ (scheduler.pc = "revoking" /\ u \notin DOMAIN db)
                => \A dbOk \in StoreOutcomes :
                      SweepDemoteUpdate(u, dbOk) => db' = db
             /\ (u \in DOMAIN db /\ u \notin DOMAIN db')
                => \E h \in Slots :
                      /\ pgHandlers[h].pc = "idle"
                      /\ pgHandlers'[h].kind = "unverify"
                      /\ pgHandlers'[h].user = u]_vars

\* C13: the first principal was picked for demotion, unverified while the
\* sweep was under way, and the sweep's UPDATE for that principal has run
C13_Witness ==
    /\ scheduler.pc = "revoking"
    /\ 1 \in DOMAIN scheduler.stage
    /\ scheduler.stage[1] = "done"
    /\ 1 \notin DOMAIN db
    /\ 2 \in DOMAIN db
    /\ \E h \in Slots : /\ pgHandlers[h].kind = "unverify"
                        /\ pgHandlers[h].user = 1
                        /\ pgHandlers[h].pc = "unverifyRoles"

\* C14: in the generations that have a scheduler, a job of the scheduler is
\* started when the scheduler is started (at process start and at every
\* restart) and at every tick of its timer.
C14_SweepAtStartAndTicks ==
    [][/\ (variant \in {"pg", "v3"} /\ process.pc = "login" /\ process'.pc = "running")
          => scheduler'.pc = "loading"
       /\ Restart => scheduler'.pc = "loading"
       /\ (events' = events + 1 /\ scheduler' # scheduler)
          => scheduler'.pc = "loading"]_vars

C16_VerifiedHasUsername ==
    /\ \A u \in DOMAIN userFile :
          userFile[u].status = 1 => userFile[u].robloxUsername # NULL
    /\ \A d \in DOMAIN db : db[d].roblox_username # NULL

\* C17 as stated: a stored record holds a proof token only while it is
\* PendingProof.
C17_TokenOnlyWhilePending ==
    \A u \in DOMAIN userFile :
        userFile[u].verificationKey # NULL => IsPendingProof(userFile[u])

\* C17: once a record is Verified its token is ignored: a Register click on a
\* Verified record is answered "already verified" at once, with no request to
\* Roblox, no comparison of the token and no write.
C17_TokenIgnoredOnceVerified ==
    [][\A h \in Slots :
          LET new == handlers'[h]
          IN (/\ handlers[h].pc = "idle"
              /\ new.kind = "register"
              /\ Link(userFile, new.user).status = 1)
             => \A inChannel \in BOOLEAN :
                   RegisterClick(h, new.user, inChannel, TRUE)
                   => /\ new.pc = "replied"
                      /\ new.outcome = "AlreadyVerified"
                      /\ new.extCalls = 0
                      /\ userFile' = userFile]_vars

\* C17: a Register click on a Verified record was answered "already verified"
C17_Witness ==
    \E h \in Slots :
        /\ handlers[h].pc = "replied"
        /\ handlers[h].kind = "register"
        /\ handlers[h].outcome = "AlreadyVerified"
        /\ Link(userFile, handlers[h].user).status = 1

C19_VerifiedOnlyAsGroupMember ==
    [][\A u \in Users :
          (/\ ~IsVerifiedNormal(userFile, db, u)
           /\ IsVerifiedNormal(userFile', db', u))
          => /\ u \in DOMAIN db'
             /\ db'[u].is_group_member
             /\ checkRobloxMembership(db'[u].roblox_id).isMember]_vars

\* the outcomes of a message handler in which the message was deleted
DeletedOutcomes == {"Deleted", "Answered", "Blocked"}

\* C20: every message of a guild member in the verification channel that a
\* message handler has handled was deleted, whoever the author is.
C20_VerificationChannelDeleted ==
    \A h \in Slots :
        /\ (handlers[h].kind = "message" /\ handlers[h].channel = VERIFICATION_CHANNEL_ID)
           => handlers[h].outcome \in DeletedOutcomes
        /\ (pgHandlers[h].kind = "message" /\ pgHandlers[h].channel = VERIFICATION_CHANNEL_ID)
           => pgHandlers[h].outcome \in DeletedOutcomes

\* the outcomes in which the access gate removed the message (the AI channel's
\* "Answered" replaces the message by the bot's own copy of it with the answer)
GateDeletedOutcomes == {"Deleted", "Blocked"}

\* C21: a message whose author has a Verified link (a status 1 record, or a
\* row stored as group member that no running sweep is demoting) and which
\* was posted outside the verification channel is not removed by the access
\* gate.
C21_VerifiedPassesFreely ==
    \A h \in Slots :
        /\ (/\ handlers[h].kind = "message"
            /\ handlers[h].channel # VERIFICATION_CHANNEL_ID
            /\ Link(userFile, handlers[h].user).status = 1)
           => handlers[h].outcome \notin GateDeletedOutcomes
        /\ (/\ pgHandlers[h].kind = "message"
            /\ pgHandlers[h].channel # VERIFICATION_CHANNEL_ID
            /\ pgHandlers[h].user \in DOMAIN db
            /\ db[pgHandlers[h].user].is_group_member
            /\ pgHandlers[h].user \notin DOMAIN scheduler.stage)
           => pgHandlers[h].outcome \notin GateDeletedOutcomes

\* C22: a message posted in the restricted channel by an author who has no
\* Verified link when it arrives (no row, or a row marked as no longer a group
\* member by a finished demotion) is deleted and its notice is posted.
C22_RestrictedMessageBlocked ==
    [][\A h \in Slots :
          LET new == pgHandlers'[h]
          IN (/\ pgHandlers[h].pc = "idle"
              /\ new.kind = "message"
              /\ new.channel = GENERAL_CHANNEL_ID
              /\ new.user \notin DOMAIN scheduler.stage
              /\ new.user \in DOMAIN db => ~db[new.user].is_group_member)
             => new.outcome = "Blocked" /\ new.pc = "warned"]_vars

\* C23: a message posted in a channel that is neither the verification
\* channel nor a restricted one is kept and no notice is posted, whether its
\* author holds the member role, has a row, or neither.
C23_OpenChannelUntouched ==
    \A h \in Slots :
        (pgHandlers[h].kind = "message" /\ pgHandlers[h].channel = OTHER_CHANNEL)
        => /\ pgHandlers[h].outcome = "Kept"
           /\ pgHandlers[h].pc = "replied"

\* C23: a user with no row and no member role posted in an open channel and
\* the message was kept
C23_Witness ==
    \E h \in Slots :
        /\ pgHandlers[h].kind = "message"
        /\ pgHandlers[h].channel = OTHER_CHANNEL
        /\ pgHandlers[h].outcome = "Kept"
        /\ pgHandlers[h].user \notin DOMAIN db
        /\ MEMBER_ROLE_ID \notin roles[pgHandlers[h].user]

\* the user's link is Verified in the store of the running generation: a
\* status 1 record, or a row stored as group member
IsVerifiedNow(u) ==
    \/ variant = "lfs" /\ Link(userFile, u).status = 1
    \/ variant = "pg" /\ u \in DOMAIN db /\ db[u].is_group_member

\* C24: the gate decides by the author's link as it is stored when the
\* message arrives: outside the verification channel the message of an author
\* whose link is Verified at that moment is not removed by the gate, and in a
\* restricted channel the message of an author whose link is not Verified at
\* that moment (never verified, unverified, or revoked by a finished
\* demotion) is removed.
C24_DecisionFollowsStatus ==
    [][\A h \in Slots :
          LET msg == IF variant = "lfs" THEN handlers'[h] ELSE pgHandlers'[h]
              arrives == /\ handlers[h].pc = "idle"
                         /\ pgHandlers[h].pc = "idle"
                         /\ msg.kind = "message"
              restricted == IF variant = "lfs" THEN OTHER_CHANNEL
                            ELSE GENERAL_CHANNEL_ID
          IN (arrives /\ msg.user \notin DOMAIN scheduler.stage)
             => /\ (IsVerifiedNow(msg.user) /\ msg.channel # VERIFICATION_CHANNEL_ID)
                   => msg.outcome \notin GateDeletedOutcomes
                /\ (~IsVerifiedNow(msg.user) /\ msg.channel = restricted)
                   => msg.outcome \in GateDeletedOutcomes]_vars

\* how far a call of the text-generation client has come: every step of a
\* call raises it, and it cannot pass 9
GeminiRank(g) == 2 * g.attempts + Len(g.waits) + (IF g.pc = "done" THEN 1 ELSE 0)

\* C25: a text-generation call makes at most 3 attempts; the waits it has made
\* are 1000 ms after the first failed attempt and 2000 ms after the second,
\* and none follows the third; an attempt that does not throw ends the call at
\* once with that attempt's text (the generated text, or the fixed fallback
\* when the body holds none); the network-error text is returned exactly when
\* 3 attempts were made and all failed; a finished call always has a text;
\* and every step of a call brings it nearer to its end, so it terminates.
C25_BoundedRetries ==
    /\ [](/\ gemini.attempts <= 3
          /\ Len(gemini.waits) <= 2
          /\ \A k \in 1..Len(gemini.waits) : gemini.waits[k] = <<1000, 2000>>[k]
          /\ gemini.pc = "fetch" => Len(gemini.waits) = gemini.attempts - 1
          /\ gemini.pc = "wait" => Len(gemini.waits) = gemini.attempts
          /\ gemini.pc = "done" => gemini.result \in GeminiTexts
          /\ gemini.result = NetworkErrorText
             => gemini.attempts = 3 /\ gemini.waits = <<1000, 2000>>
          /\ gemini.result \in {GeneratedText, FallbackText}
             => gemini.attempts \in 1..3 /\ Len(gemini.waits) = gemini.attempts - 1)
    /\ [][/\ (gemini.pc = "fetch" /\ gemini' # gemini)
             => \/ gemini'.pc = "done" /\ gemini'.result \in {GeneratedText, FallbackText}
                   /\ gemini'.attempts = gemini.attempts /\ gemini'.waits = gemini.waits
                \/ gemini'.pc = "wait" /\ gemini.attempts < 3
                   /\ gemini'.attempts = gemini.attempts
                \/ gemini'.pc = "done" /\ gemini'.result = NetworkErrorText
                   /\ gemini.attempts = 3 /\ gemini'.waits = gemini.waits
          /\ (gemini.pc = "wait" /\ gemini' # gemini)
             => gemini'.pc = "fetch" /\ gemini'.attempts = gemini.attempts + 1
          /\ (gemini' # gemini /\ gemini'.pc # "idle")
             => GeminiRank(gemini') > GeminiRank(gemini) /\ GeminiRank(gemini') <= 9]_vars

\* C25 witness: a call has ended with the network-error text after three
\* attempts and the two waits
C25_Witness ==
    /\ gemini.pc = "done"
    /\ gemini.result = NetworkErrorText
    /\ gemini.attempts = 3
    /\ gemini.waits = <<1000, 2000>>
    /\ \E h \in Slots : handlers[h].pc = "awaitAI" /\ handlers[h].outcome = "Answered"

\* C26: in the generations with a schema-setup step, a failed schema
\* statement ends the process before any login, and the bot is logging in or
\* running only if the schema statement has gone through.
C26_LoginOnlyAfterSchema ==
    /\ [](variant \in {"pg", "v3"} /\ process.pc \in {"login", "running"}
             => process.schema)
    /\ [][(process.pc = "starting" /\ process' # process /\ ~process'.schema)
             => process'.pc = "exited"]_vars

\* the replies that tell the user a verification step has succeeded
SuccessOutcomes ==
    {"KeyIssued", "VerificationComplete", "AdminBypassSuccess", "VerificationSuccessful"}

\* C27: when the store write of a verification request fails (the row of the
\* user is not in the table after DAL.save, the user file does not hold the
\* merged record after saveUserData), the handler ends with the internal-error
\* reply and not with a success reply, and the process keeps running.
C27_StoreFailureSurfaces ==
    [][\A h \in Slots :
          /\ (/\ pgHandlers[h].pc = "saving"
              /\ pgHandlers'[h].pc # "saving"
              /\ pgHandlers[h].user \notin DOMAIN db')
             => /\ pgHandlers'[h].pc = "replied"
                /\ pgHandlers'[h].outcome = "InternalError"
                /\ process'.pc = "running"
          /\ (/\ handlers[h].pc = "saveWrite"
              /\ handlers'[h].pc # "saveWrite"
              /\ userFile' # saveUserData(handlers[h].allData, handlers[h].user,
                                          handlers[h].newData))
             => /\ handlers'[h].outcome \notin SuccessOutcomes
                /\ process'.pc = "running"]_vars

C29_StatusQueryReadOnly ==
    [][\A h \in Slots, u \in Users, target \in Users :
          (/\ pgHandlers[h].pc = "idle"
           /\ pgHandlers'[h].kind = "checkstatus"
           /\ CheckStatus(h, u, target, TRUE))
          => /\ target \in DOMAIN db
                => /\ pgHandlers'[h].outcome = "StatusVerified"
                   /\ pgHandlers'[h].robloxData.robloxId = db[target].roblox_id
                   /\ pgHandlers'[h].robloxData.username = db[target].roblox_username
                   /\ pgHandlers'[h].robloxData.isMember = db[target].is_group_member
             /\ target \notin DOMAIN db
                => pgHandlers'[h].outcome = "StatusNotVerified"
             /\ db' = db
             /\ roles' = roles
             /\ PENDING_VERIFICATIONS' = PENDING_VERIFICATIONS
             /\ userFile' = userFile]_vars

\* C29 witness: a status query has been answered with the row of a user the
\* sweep has marked as a non-member, and the row is still there
C29_Witness ==
    \E h \in Slots, target \in DOMAIN db :
        /\ pgHandlers[h].kind = "checkstatus"
        /\ pgHandlers[h].outcome = "StatusVerified"
        /\ ~db[target].is_group_member
        /\ pgHandlers[h].robloxData = statusMessage(db[target])

C31_ChecksSequentialThenDemotions ==
    /\ [](/\ Cardinality(scheduler.checking) <= 1
          /\ scheduler.pc = "checking" <=> scheduler.checking # {}
          /\ (scheduler.checking # {} \/ scheduler.queue # <<>>)
             => DOMAIN scheduler.stage = {}
          /\ scheduler.pc = "revoking"
             => scheduler.checking = {} /\ scheduler.queue = <<>>)
    /\ [][/\ (scheduler.pc = "checking" /\ scheduler'.pc = "checking"
              /\ scheduler' # scheduler)
             => /\ scheduler.queue # <<>>
                /\ scheduler'.checking = {Head(scheduler.queue)}
                /\ scheduler'.queue = Tail(scheduler.queue)
          /\ (scheduler.pc = "checking" /\ scheduler'.pc = "revoking")
             => /\ scheduler.queue = <<>>
                /\ \A u \in DOMAIN scheduler'.stage : scheduler'.stage[u] = "roles"
          /\ (scheduler.pc # "revoking" /\ scheduler'.pc = "revoking")
             => scheduler.pc = "checking"]_vars

\* C31 witness: after the checks of a run the demotions of its two users
\* interleave: the second user's roles were swapped while the first user's
\* demotion has not taken its first step
C31_Witness ==
    /\ scheduler.pc = "revoking"
    /\ DOMAIN scheduler.stage = {1, 2}
    /\ scheduler.stage[1] = "roles"
    /\ scheduler.stage[2] = "update"
    /\ MEMBER_ROLE_ID \notin roles[2]

C33_SessionCreatedAndDeleted ==
    [][/\ \A u \in PENDING_VERIFICATIONS' \ PENDING_VERIFICATIONS :
             \E h \in Slots :
                /\ pgHandlers[h].pc = "setPending"
                /\ pgHandlers[h].kind = "verify"
                /\ pgHandlers[h].user = u
                /\ pgHandlers'[h].outcome = "PromptShown"
       /\ \A h \in Slots :
             /\ (pgHandlers[h].pc = "idle" /\ pgHandlers'[h].pc = "setPending")
                => /\ pgHandlers'[h].user \notin DOMAIN db
                   /\ pgHandlers'[h].user \in formShown'
             /\ (/\ pgHandlers[h].kind = "verificationModal"
                 /\ pgHandlers[h].pc # "replied"
                 /\ pgHandlers'[h].pc = "replied")
                => /\ pgHandlers'[h].outcome \in
                         {"VerificationSuccessful", "NotAMember", "InvalidInput",
                          "InternalError"}
                   /\ pgHandlers'[h].user \notin PENDING_VERIFICATIONS']_vars

\* C33 witness: a submission has ended on the internal-error path and its
\* user has no pending session
C33_Witness ==
    \E h \in Slots :
        /\ pgHandlers[h].kind = "verificationModal"
        /\ pgHandlers[h].pc = "replied"
        /\ pgHandlers[h].outcome = "InternalError"
        /\ pgHandlers[h].user \notin PENDING_VERIFICATIONS

\* C34: when the submitted id is accepted (numeric) but the group check says
\* the account is not a member, the step that handles the answer ends the
\* run with the NotAMember reply and changes neither a row nor a role; the
\* NotAMember reply is given in no other case, and the run wrote nothing
\* before it (its earlier steps leave rows and roles alone too).  A run cut
\* off by a restart of the process (its slot goes back to idle) gives no reply.
C34_NotAMemberWritesNothing ==
    [][\A h \in Slots :
          /\ (/\ pgHandlers[h].kind = "verificationModal"
              /\ pgHandlers[h].pc = "checking"
              /\ pgHandlers'[h].pc \notin {"checking", "idle"}
              /\ (parseInt(pgHandlers[h].robloxId) % 2) # 0)
             => /\ pgHandlers'[h].pc = "replied"
                /\ pgHandlers'[h].outcome = "NotAMember"
                /\ pgHandlers'[h].user = pgHandlers[h].user
                /\ db' = db
                /\ roles' = roles
          /\ (/\ pgHandlers[h].pc # "replied"
              /\ pgHandlers'[h].pc = "replied"
              /\ pgHandlers'[h].outcome = "NotAMember")
             => /\ pgHandlers[h].kind = "verificationModal"
                /\ pgHandlers[h].pc = "checking"
                /\ (parseInt(pgHandlers[h].robloxId) % 2) # 0
          /\ (/\ pgHandlers[h].kind = "verificationModal"
              /\ pgHandlers[h].pc \in {"deferred", "checking"}
              /\ pgHandlers'[h] # pgHandlers[h]
              /\ pgHandlers'[h].pc \in {"checking", "saving"})
             => db' = db /\ roles' = roles]_vars

\* C34 witness: a submission of a user without a row has ended with the
\* NotAMember reply; the user has no row and not the member role
C34_Witness ==
    \E h \in Slots :
        /\ pgHandlers[h].kind = "verificationModal"
        /\ pgHandlers[h].pc = "replied"
        /\ pgHandlers[h].outcome = "NotAMember"
        /\ pgHandlers[h].user \notin DOMAIN db
        /\ MEMBER_ROLE_ID \notin roles[pgHandlers[h].user]

\* C35: when the write of a Register run makes the user's record Verified,
\* the username in the written record is the one whose profile description
\* that run fetched and compared with the key (the username the run read at
\* entry), whatever the user submitted while the profile check was in flight.
C35_VerifiedIdentityIsTheMatchedOne ==
    [][\A h \in Slots :
          (/\ handlers[h].pc = "saveWrite"
           /\ handlers[h].kind = "register"
           /\ handlers'[h].pc = "replied"
           /\ Link(userFile, handlers[h].user).status # 1
           /\ Link(userFile', handlers[h].user).status = 1)
          => Link(userFile', handlers[h].user).robloxUsername
                 = handlers[h].userData.robloxUsername]_vars

\* C36: a verification-flow interaction (Agree, Register, username modal)
\* of a user whose record was Verified when the interaction arrived changes
\* nothing in the stored record: the write of such a run, if it gets to one,
\* leaves status, username, key and admin flag of that user as they were.
C36_VerifiedRecordUntouched ==
    [][\A h \in Slots :
          (/\ handlers[h].kind \in {"agree", "register", "modal", "admin"}
           /\ handlers[h].pc # "idle"
           /\ handlers[h].userData.status = 1
           /\ handlers'[h] # handlers[h]
           /\ Link(userFile, handlers[h].user).status = 1)
          => Link(userFile', handlers[h].user)
                 = Link(userFile, handlers[h].user)]_vars

\* C37: the write of a saveUserData call for one user leaves the record of
\* every other user in users.json as it was: none is changed, removed or
\* added.
C37_SaveLeavesOthersAlone ==
    [][\A h \in Slots :
          (handlers[h].pc = "saveWrite" /\ handlers'[h].pc = "replied")
          => \A v \in Users \ {handlers[h].user} :
                /\ v \in DOMAIN userFile' <=> v \in DOMAIN userFile
                /\ v \in DOMAIN userFile => userFile'[v] = userFile[v]]_vars

\* C38: the role step of a form submission gives the user the member role
\* only if the DAL.save of that submission stored its row.
C38_RoleOnlyWithPersistedLink ==
    [][\A h \in Slots :
          LET run == pgHandlers[h]
          IN (/\ run.pc = "roles"
              /\ run.kind = "verificationModal"
              /\ pgHandlers'[h].pc = "replied"
              /\ MEMBER_ROLE_ID \in roles'[run.user] \ roles[run.user])
             => run.saved]_vars

\* C39: while the form opened by a /verify run that has recorded its session
\* is still open (not yet submitted), the user's pending session exists, so
\* the submission of that form passes the check of line 1314 and is not
\* answered SessionExpired.  The /verify run is still at its reply, so the
\* process has not been restarted since it recorded the session, and no
\* /verify run of the user is between showModal and recording the session.
C39_OpenFormKeepsSession ==
    \A h \in Slots :
        (/\ pgHandlers[h].pc = "replied"
         /\ pgHandlers[h].kind = "verify"
         /\ pgHandlers[h].outcome = "PromptShown"
         /\ pgHandlers[h].user \in formShown
         /\ \A g \in Slots : pgHandlers[g].user = pgHandlers[h].user
                                => pgHandlers[g].pc # "setPending")
        => HasPendingSession(pgHandlers[h].user)

\* C40: after any sequence of console.log calls the buffer holds at most
\* MAX_LOGS_IN_MEMORY entries, they are the entries buffered last, in the
\* order they were buffered (all of them while fewer than the maximum were
\* buffered), and their ids are strictly increasing.
C40_BufferHoldsLatest ==
    LET buffer == logger.logBuffer
        all == logger.buffered
    IN /\ Len(buffer) <= MAX_LOGS_IN_MEMORY
       /\ Len(buffer) = IF Len(all) < MAX_LOGS_IN_MEMORY THEN Len(all)
                        ELSE MAX_LOGS_IN_MEMORY
       /\ buffer = SubSeq(all, Len(all) - Len(buffer) + 1, Len(all))
       /\ \A i \in 1..(Len(buffer) - 1) : buffer[i].id < buffer[i + 1].id
       /\ \A i \in 1..Len(buffer) : buffer[i].id < logger.logIdCounter

\* C40 witness: more entries were buffered than the buffer holds, the buffer
\* is full, and an id was used up by a call that buffered nothing
C40_Witness ==
    /\ Len(logger.buffered) > MAX_LOGS_IN_MEMORY
    /\ Len(logger.logBuffer) = MAX_LOGS_IN_MEMORY
    /\ \E i \in 1..(Len(logger.logBuffer) - 1) :
          logger.logBuffer[i + 1].id > logger.logBuffer[i].id + 1

====
